---- MODULE Spec2Model ----
(***************************************************************************)
(* A model of ORIGINIUM, an LSM-tree storage engine with SSI transactions. *)
(*                                                                         *)
(* Strings are sequences of byte codes, so that the versioned-key codec    *)
(* (KeyWithTs, ParseKey, ParseTs), the comparator (CompareKeys) and the    *)
(* plain string order used by Index.Search and by Merge's final sort are   *)
(* modelled by what they compute.  A Go runtime panic (ParseKey slicing a  *)
(* key that holds no '@') is modelled explicitly: operators that can panic *)
(* return a record with a `panic` field, and the process state `panicked`  *)
(* records that the process has aborted.                                   *)
(***************************************************************************)
EXTENDS Integers, Sequences, FiniteSets, TLC

(***************************************************************************)
(* Bytes and strings                                                       *)
(***************************************************************************)
AT == 64
\* '0'
Zero == 48

\* a maximum that looks at its first argument only
Max2First(a, b) == a

Max2(a, b) == IF a >= b THEN a ELSE b

SetMax(S) == CHOOSE x \in S : \A y \in S : y <= x

\* strings.Compare, and Go's <, > on strings: bytewise lexicographic order.
RECURSIVE StrCmpFrom(_, _, _)
StrCmpFrom(a, b, i) ==
    IF i > Len(a) /\ i > Len(b) THEN 0
    ELSE IF i > Len(a) THEN -1
    ELSE IF i > Len(b) THEN 1
    ELSE IF a[i] < b[i] THEN -1
    ELSE IF a[i] > b[i] THEN 1
    ELSE StrCmpFrom(a, b, i + 1)

StrCompare(a, b) == StrCmpFrom(a, b, 1)

\* strings.LastIndex(s, "@"): the 0-based index of the last c, -1 if none.
LastIndex(s, c) ==
    IF \E i \in 1..Len(s) : s[i] = c
    THEN SetMax({i \in 1..Len(s) : s[i] = c}) - 1
    ELSE -1

\* strconv.FormatUint(ts, 10)
RECURSIVE FormatUint(_)
FormatUint(n) ==
    IF n < 10 THEN <<Zero + n>>
    ELSE Append(FormatUint(n \div 10), Zero + (n % 10))

IsDigits(s) == Len(s) > 0 /\ \A i \in 1..Len(s) : s[i] >= Zero /\ s[i] <= Zero + 9

RECURSIVE DigitsValue(_)
DigitsValue(s) ==
    IF Len(s) = 0 THEN 0
    ELSE 10 * DigitsValue(SubSeq(s, 1, Len(s) - 1)) + (s[Len(s)] - Zero)

\* strconv.ParseUint(s, 10, 64) with the error mapped to 0, as ParseTs does.
ParseUintOrZero(s) == IF IsDigits(s) THEN DigitsValue(s) ELSE 0

(***************************************************************************)
(* Versioned key codec (types)                                             *)
(***************************************************************************)
KeyWithTs(key, ts) == key \o <<AT>> \o FormatUint(ts)

\* key[:strings.LastIndex(key, "@")] panics (slice bounds out of range) when
\* the key holds no '@'.
ParseKeyPanics(key) == LastIndex(key, AT) = -1

ParseKey(key) == SubSeq(key, 1, LastIndex(key, AT))

ParseTs(key) ==
    IF key = <<>> THEN 0
    ELSE ParseUintOrZero(SubSeq(key, LastIndex(key, AT) + 2, Len(key)))

CompareKeysPanics(key1, key2) == ParseKeyPanics(key1) \/ ParseKeyPanics(key2)

CompareKeys(key1, key2) ==
    LET c == StrCompare(ParseKey(key1), ParseKey(key2)) IN
    IF c # 0 THEN c
    ELSE IF ParseTs(key1) < ParseTs(key2) THEN 1
    ELSE IF ParseTs(key1) > ParseTs(key2) THEN -1
    ELSE 0

IsSameKeyPanics(key1, key2) == ParseKeyPanics(key1) \/ ParseKeyPanics(key2)

IsSameKey(key1, key2) == ParseKey(key1) = ParseKey(key2)

\* types.Entry{}: the zero value returned with ok = false.
NoEntry == [Key |-> <<>>, Value |-> <<>>, Tombstone |-> FALSE, Version |-> 0]

MkEntry(k, v, tomb, ver) == [Key |-> k, Value |-> v, Tombstone |-> tomb, Version |-> ver]

(***************************************************************************)
(* Configuration (Config): the values the DB is opened with                *)
(***************************************************************************)
SkipListMaxLevel == 1
MemtableByteThreshold == 19
ImmutableBuffer == 2
DataBlockByteThreshold == 5
L0TargetNum == 1
LevelRatio == 2

\* utils.Pow
RECURSIVE Pow(_, _)
Pow(x, n) == IF n = 0 THEN 1 ELSE x * Pow(x, n - 1)

(***************************************************************************)
(* Skip list: the ordered list of its level-0 chain and its size estimate. *)
(* The towers only decide which elements a search compares; every search   *)
(* of a non-empty list compares the probe with at least one element.       *)
(***************************************************************************)
SizeofTombstone == 1
SizeofVersion == 8
SizeofPointer == 8

EmptySkipList == [list |-> <<>>, size |-> 0]

AnyRawKey(list) == \E i \in 1..Len(list) : ParseKeyPanics(list[i].Key)

\* the walk of Set, Get, LowerBound: a comparison of a key without '@' panics
SkipListWalkPanics(sl, key) ==
    Len(sl.list) > 0 /\ (ParseKeyPanics(key) \/ AnyRawKey(sl.list))

\* number of elements that compare < key
CountLess(list, key) == Cardinality({i \in 1..Len(list) : CompareKeys(list[i].Key, key) < 0})

InsertAt(list, pos, e) == SubSeq(list, 1, pos - 1) \o <<e>> \o SubSeq(list, pos, Len(list))

\* Set without the walk: the entry is linked after the last node
SkipListSetLast(sl, entry, level) ==
    [panic |-> FALSE,
     sl |-> [list |-> Append(sl.list, entry),
             size |-> sl.size + Len(entry.Key) + Len(entry.Value)
                      + SizeofTombstone + SizeofVersion + level * SizeofPointer]]

SkipListSet(sl, entry, level) ==
    IF SkipListWalkPanics(sl, entry.Key) THEN [panic |-> TRUE, sl |-> sl]
    ELSE
      LET n == IF Len(sl.list) = 0 THEN 0 ELSE CountLess(sl.list, entry.Key) IN
      IF n < Len(sl.list) /\ CompareKeys(sl.list[n + 1].Key, entry.Key) = 0
      THEN \* update value and tombstone in place
           [panic |-> FALSE,
            sl |-> [list |-> [sl.list EXCEPT ![n + 1].Value = entry.Value,
                                             ![n + 1].Tombstone = entry.Tombstone],
                    size |-> sl.size + Len(entry.Value) - Len(sl.list[n + 1].Value)]]
      ELSE [panic |-> FALSE,
            sl |-> [list |-> InsertAt(sl.list, n + 1, entry),
                    size |-> sl.size + Len(entry.Key) + Len(entry.Value)
                             + SizeofTombstone + SizeofVersion + level * SizeofPointer]]

SkipListLowerBound(sl, key) ==
    IF SkipListWalkPanics(sl, key) THEN [panic |-> TRUE, ok |-> FALSE, entry |-> NoEntry]
    ELSE
      LET n == IF Len(sl.list) = 0 THEN 0 ELSE CountLess(sl.list, key) IN
      IF n < Len(sl.list)
      THEN [panic |-> FALSE, ok |-> TRUE, entry |-> sl.list[n + 1]]
      ELSE [panic |-> FALSE, ok |-> FALSE, entry |-> NoEntry]

SkipListAll(sl) == sl.list

(***************************************************************************)
(* SSTable blocks (table)                                                  *)
(***************************************************************************)
\* utils.LCP
RECURSIVE LCPFrom(_, _, _)
LCPFrom(a, b, i) ==
    IF i < Len(a) /\ i < Len(b) /\ a[i + 1] = b[i + 1] THEN LCPFrom(a, b, i + 1) ELSE i

LCP(a, b) == LCPFrom(a, b, 0)

Uint16(n) == n % 65536

\* Data.Encode: prefix compression against the previous key of the block
RECURSIVE EncodeFrom(_, _, _)
EncodeFrom(entries, i, prevKey) ==
    IF i > Len(entries) THEN <<>>
    ELSE LET e == entries[i]
             lcp == LCP(e.Key, prevKey)
             suffix == SubSeq(e.Key, lcp + 1, Len(e.Key))
         IN <<[lcp |-> Uint16(lcp), suffixLen |-> Uint16(Len(suffix)), suffix |-> suffix,
               valueLen |-> Uint16(Len(e.Value)), value |-> e.Value,
               tombstone |-> IF e.Tombstone THEN 1 ELSE 0,
               version |-> e.Version]>>
            \o EncodeFrom(entries, i + 1, e.Key)

DataEncode(entries) == EncodeFrom(entries, 1, <<>>)

\* Data.Decode of a byte range holding one or more encoded blocks
RECURSIVE DecodeFrom(_, _, _)
DecodeFrom(recs, i, prevKey) ==
    IF i > Len(recs) THEN <<>>
    ELSE LET r == recs[i]
             key == SubSeq(prevKey, 1, r.lcp) \o SubSeq(r.suffix, 1, r.suffixLen)
         IN <<MkEntry(key, SubSeq(r.value, 1, r.valueLen), r.tombstone = 1, r.version)>>
            \o DecodeFrom(recs, i + 1, key)

DataDecode(recs) == DecodeFrom(recs, 1, <<>>)

\* Data.LowerBound: binary search with the versioned-key comparator
RECURSIVE LowerBoundFrom(_, _, _, _)
LowerBoundFrom(entries, key, low, high) ==
    IF low > high THEN [panic |-> FALSE, ok |-> FALSE, entry |-> NoEntry]
    ELSE
      LET mid == low + ((high - low) \div 2) IN
      IF CompareKeysPanics(entries[mid].Key, key)
      THEN [panic |-> TRUE, ok |-> FALSE, entry |-> NoEntry]
      ELSE IF CompareKeys(entries[mid].Key, key) >= 0
      THEN IF mid = 1 THEN [panic |-> FALSE, ok |-> TRUE, entry |-> entries[mid]]
           ELSE IF CompareKeysPanics(entries[mid - 1].Key, key)
           THEN [panic |-> TRUE, ok |-> FALSE, entry |-> NoEntry]
           ELSE IF CompareKeys(entries[mid - 1].Key, key) < 0
           THEN [panic |-> FALSE, ok |-> TRUE, entry |-> entries[mid]]
           ELSE LowerBoundFrom(entries, key, low, mid - 1)
      ELSE LowerBoundFrom(entries, key, mid + 1, high)

DataLowerBound(entries, key) == LowerBoundFrom(entries, key, 1, Len(entries))

\* Build: greedy packing of the entries into data blocks
EntrySize(e) == Len(e.Key) + Len(e.Value) + 1

RECURSIVE PackBlocks(_, _, _, _, _)
PackBlocks(entries, i, data, currSize, dataBlocks) ==
    IF i > Len(entries)
    THEN IF Len(data) > 0 THEN Append(dataBlocks, data) ELSE dataBlocks
    ELSE IF currSize > DataBlockByteThreshold
    THEN PackBlocks(entries, i + 1, <<entries[i]>>, EntrySize(entries[i]), Append(dataBlocks, data))
    ELSE PackBlocks(entries, i + 1, Append(data, entries[i]), currSize + EntrySize(entries[i]), dataBlocks)

\* Build: the index block (one entry per data block; the handle is the block's
\* position in the file) and the file's encoded data blocks
Build(entries) ==
    LET dataBlocks == PackBlocks(entries, 1, <<>>, 0, <<>>) IN
    [index |-> [b \in 1..Len(dataBlocks) |->
                   [StartKey |-> dataBlocks[b][1].Key,
                    EndKey |-> dataBlocks[b][Len(dataBlocks[b])].Key,
                    DataHandle |-> b]],
     bytes |-> [b \in 1..Len(dataBlocks) |-> DataEncode(dataBlocks[b])]]

\* Index.Search: the data block that may hold the key (plain string order)
RECURSIVE IndexSearchFrom(_, _, _, _)
IndexSearchFrom(index, key, low, high) ==
    IF low > high THEN [ok |-> FALSE, handle |-> 0]
    ELSE
      LET mid == low + ((high - low) \div 2) IN
      IF StrCompare(index[mid].StartKey, key) > 0
      THEN IndexSearchFrom(index, key, low, mid - 1)
      ELSE IF mid = Len(index) \/ StrCompare(index[mid + 1].StartKey, key) > 0
      THEN [ok |-> TRUE, handle |-> index[mid].DataHandle]
      ELSE IndexSearchFrom(index, key, mid + 1, high)

IndexSearch(index, key) ==
    IF Len(index) = 0 THEN [ok |-> FALSE, handle |-> 0]
    ELSE IF StrCompare(key, index[Len(index)].EndKey) > 0 THEN [ok |-> FALSE, handle |-> 0]
    ELSE IndexSearchFrom(index, key, 1, Len(index))

(***************************************************************************)
(* Bloom filter: the set of added strings.  A member is always reported    *)
(* (no false negative); a non-member is reported when the probe is one of  *)
(* the filter's false positives, which the caller chooses.  A filter built *)
(* for n = 0 elements has m = 0 bits and k = int(NaN) hash functions: the  *)
(* conversion is implementation-defined, so that New either panics         *)
(* (negative length) or yields a filter without hash functions, whose      *)
(* Contains is vacuously true.                                             *)
(***************************************************************************)
FilterBuildPanics(kvs, nanNegative) == Len(kvs) = 0 /\ nanNegative

FilterBuild(kvs) == [added |-> {kvs[i].Key : i \in 1..Len(kvs)}, vacuous |-> Len(kvs) = 0]

FilterContains(filter, key, falsePositive) ==
    filter.vacuous \/ key \in filter.added \/ falsePositive

(***************************************************************************)
(* Sorting (slices.SortFunc) of entries with pairwise distinct keys        *)
(***************************************************************************)
RECURSIVE SortByStr(_)
SortByStr(S) ==
    IF S = {} THEN <<>>
    ELSE LET m == CHOOSE x \in S : \A y \in S : StrCompare(x.Key, y.Key) <= 0
         IN <<m>> \o SortByStr(S \ {m})

RECURSIVE SortByCompareKeys(_)
SortByCompareKeys(S) ==
    IF S = {} THEN <<>>
    ELSE LET m == CHOOSE x \in S : \A y \in S : CompareKeys(x.Key, y.Key) <= 0
         IN <<m>> \o SortByCompareKeys(S \ {m})

RECURSIVE Concat(_)
Concat(seqs) == IF Len(seqs) = 0 THEN <<>> ELSE seqs[1] \o Concat(Tail(seqs))

Range(f) == {f[i] : i \in DOMAIN f}

(***************************************************************************)
(* kway.Merge                                                              *)
(***************************************************************************)
\* Heap.Less on the heads of lists i and j
HeapLess(lists, i, j) ==
    LET c == CompareKeys(lists[i][1].Key, lists[j][1].Key) IN
    IF c # 0 THEN c < 0 ELSE i < j

\* the pop loop: the minimum head is popped and recorded as the latest entry
\* of its key, and the next element of its list is pushed
RECURSIVE MergeLoop(_, _)
MergeLoop(lists, latest) ==
    LET heads == {i \in 1..Len(lists) : Len(lists[i]) > 0} IN
    IF heads = {} THEN latest
    ELSE LET i == CHOOSE i \in heads : \A j \in heads \ {i} : HeapLess(lists, i, j)
             e == lists[i][1]
         IN MergeLoop([lists EXCEPT ![i] = Tail(lists[i])],
                      {x \in latest : x.Key # e.Key} \cup {e})

\* the heap compares keys as soon as it holds two elements
MergePanics(lists) ==
    /\ Cardinality({i \in 1..Len(lists) : Len(lists[i]) > 0}) >= 2
    /\ \E i \in 1..Len(lists) : AnyRawKey(lists[i])

\* tombstones are dropped and the result is sorted in plain string order
Merge(lists) == SortByStr({e \in MergeLoop(lists, {}) : ~e.Tombstone})

(***************************************************************************)
(* levelManager                                                            *)
(***************************************************************************)
\* discardStaleEntries with low = oracle.discardAtOrBelow()
DiscardPanics(entries, low) == low # 0 /\ AnyRawKey(entries)

\* the entry kept for a user key among the versions <= low: the first one of
\* the greatest timestamp
LatestAtOrBelow(entries, low, i) ==
    /\ ParseTs(entries[i].Key) <= low
    /\ \A j \in 1..Len(entries) :
          (ParseKey(entries[j].Key) = ParseKey(entries[i].Key) /\ ParseTs(entries[j].Key) <= low)
          => \/ ParseTs(entries[j].Key) < ParseTs(entries[i].Key)
             \/ (ParseTs(entries[j].Key) = ParseTs(entries[i].Key) /\ i <= j)

discardStaleEntries(entries, low) ==
    IF low = 0 THEN entries
    ELSE SortByCompareKeys({entries[i] : i \in {i \in 1..Len(entries) :
              ParseTs(entries[i].Key) > low \/ LatestAtOrBelow(entries, low, i)}})

\* maxLevelIdx: -1 for a level without tables
maxLevelIdx(tables) ==
    IF Len(tables) = 0 THEN -1 ELSE SetMax({tables[i].levelIdx : i \in 1..Len(tables)})

StartKeyOf(th) == th.dataBlockIndex[1].StartKey
EndKeyOf(th) == th.dataBlockIndex[Len(th.dataBlockIndex)].EndKey

\* boundary: least start key and greatest end key in plain string order
boundary(ths) ==
    [start |-> (CHOOSE t \in Range(ths) : \A u \in Range(ths) :
                   StrCompare(StartKeyOf(t), StartKeyOf(u)) <= 0).dataBlockIndex[1].StartKey,
     end |-> EndKeyOf(CHOOSE t \in Range(ths) : \A u \in Range(ths) :
                   StrCompare(EndKeyOf(t), EndKeyOf(u)) >= 0)]

\* overlapLN: positions of the tables of a level that overlap [start, end]
overlapLNPanics(tables, start, end) ==
    Len(tables) > 0 /\
    \/ \E i \in 1..Len(tables) : Len(tables[i].dataBlockIndex) = 0
    \/ ParseKeyPanics(start) \/ ParseKeyPanics(end)
    \/ \E i \in 1..Len(tables) : ParseKeyPanics(StartKeyOf(tables[i]))
                                 \/ ParseKeyPanics(EndKeyOf(tables[i]))

overlapLN(tables, start, end) ==
    {i \in 1..Len(tables) :
        /\ CompareKeys(StartKeyOf(tables[i]), end) <= 0
        /\ CompareKeys(EndKeyOf(tables[i]), start) >= 0}

\* the elements of a sequence at the positions of a set, in order
RECURSIVE SelectAt(_, _, _)
SelectAt(seq, P, i) ==
    IF i > Len(seq) THEN <<>>
    ELSE (IF i \in P THEN <<seq[i]>> ELSE <<>>) \o SelectAt(seq, P, i + 1)

\* fetch of a table's whole data range / of one data block
fileName(level, idx) == <<level, idx>>

fetchAll(files, level, idx) == DataDecode(Concat(files[fileName(level, idx)]))

fetchBlock(files, level, idx, handle) == DataDecode(files[fileName(level, idx)][handle])

\* the tables in search order: L0 first, each level front to back
RECURSIVE TablesFrom(_, _)
TablesFrom(levels, l) ==
    IF l > Len(levels) THEN <<>>
    ELSE [j \in 1..Len(levels[l]) |-> [level |-> l - 1, th |-> levels[l][j]]]
         \o TablesFrom(levels, l + 1)

RECURSIVE SearchTablesFrom(_, _, _, _, _)
SearchTablesFrom(tabs, files, key, FP, i) ==
    IF i > Len(tabs) THEN [panic |-> FALSE, ok |-> FALSE, entry |-> NoEntry]
    ELSE
      LET th == tabs[i].th
          level == tabs[i].level
          k == IF LastIndex(key, AT) # -1 THEN ParseKey(key) ELSE key
          h == IndexSearch(th.dataBlockIndex, key)
      IN
      IF ~FilterContains(th.filter, k, fileName(level, th.levelIdx) \in FP)
      THEN SearchTablesFrom(tabs, files, key, FP, i + 1)
      ELSE IF ~h.ok THEN SearchTablesFrom(tabs, files, key, FP, i + 1)
      ELSE IF fileName(level, th.levelIdx) \notin DOMAIN files
      THEN [panic |-> TRUE, ok |-> FALSE, entry |-> NoEntry]
      ELSE LET r == DataLowerBound(fetchBlock(files, level, th.levelIdx, h.handle), key) IN
           IF r.panic \/ r.ok THEN r
           ELSE SearchTablesFrom(tabs, files, key, FP, i + 1)

searchLowerBound(levels, files, key, FP) ==
    SearchTablesFrom(TablesFrom(levels, 1), files, key, FP, 1)

\* the level manager's state: the per-level handle lists and the directory's
\* table files
NoFiles == <<>>

RemoveFiles(files, names) == [n \in DOMAIN files \ names |-> files[n]]

WriteFile(files, name, bytes) == [n \in DOMAIN files \cup {name} |->
                                     IF n = name THEN bytes ELSE files[n]]

tableHandle(idx, kvs) ==
    [levelIdx |-> idx, filter |-> FilterBuild(kvs), dataBlockIndex |-> Build(kvs).index]

\* flushToL0: a new L0 table at the back of L0, its file written and synced
flushToL0(lm, kvs) ==
    LET levels == IF Len(lm.levels) = 0 THEN <<<<>>>> ELSE lm.levels
        th == tableHandle(maxLevelIdx(levels[1]) + 1, kvs)
    IN [levels |-> [levels EXCEPT ![1] = Append(levels[1], th)],
        files |-> WriteFile(lm.files, fileName(0, th.levelIdx), Build(kvs).bytes)]

\* the common tail of compactL0 and compactLN: the tables at positions srcPos
\* of level n (0-based) and dstPos of level n+1 are merged into one new table
\* of level n+1; old handles and files are removed, then the new file is written
CompactInto(lm, n, srcPos, dstPos, low, nanNegative) ==
    LET src == lm.levels[n + 1]
        dst == lm.levels[n + 2]
        srcT == SelectAt(src, srcPos, 1)
        dstT == SelectAt(dst, dstPos, 1)
        missing == \/ \E i \in 1..Len(srcT) : fileName(n, srcT[i].levelIdx) \notin DOMAIN lm.files
                   \/ \E i \in 1..Len(dstT) : fileName(n + 1, dstT[i].levelIdx) \notin DOMAIN lm.files
        dataBlockList == [i \in 1..Len(dstT) |-> fetchAll(lm.files, n + 1, dstT[i].levelIdx)]
                         \o [i \in 1..Len(srcT) |-> fetchAll(lm.files, n, srcT[i].levelIdx)]
        mergedEntries == Merge(dataBlockList)
        discarded == discardStaleEntries(mergedEntries, low)
        th == tableHandle(maxLevelIdx(dst) + 1, discarded)
        old == {fileName(n, srcT[i].levelIdx) : i \in 1..Len(srcT)}
               \cup {fileName(n + 1, dstT[i].levelIdx) : i \in 1..Len(dstT)}
    IN
    IF missing THEN [panic |-> TRUE, lm |-> lm]
    ELSE IF MergePanics(dataBlockList) THEN [panic |-> TRUE, lm |-> lm]
    ELSE IF DiscardPanics(mergedEntries, low) THEN [panic |-> TRUE, lm |-> lm]
    ELSE IF FilterBuildPanics(discarded, nanNegative) THEN [panic |-> TRUE, lm |-> lm]
    ELSE [panic |-> FALSE,
          lm |-> [levels |-> [lm.levels EXCEPT
                     ![n + 1] = SelectAt(src, (1..Len(src)) \ srcPos, 1),
                     ![n + 2] = SelectAt(Append(dst, th), (1..(Len(dst) + 1)) \ dstPos, 1)],
                  files |-> WriteFile(RemoveFiles(lm.files, old),
                                      fileName(n + 1, th.levelIdx), Build(discarded).bytes)]]

\* lazy init of level n (0-based)
WithLevel(lm, n) ==
    IF Len(lm.levels) - 1 < n THEN [lm EXCEPT !.levels = Append(lm.levels, <<>>)] ELSE lm

\* L0 -> L1
compactL0(lm0, low, nanNegative) ==
    LET lm == WithLevel(lm0, 1)
        l0 == lm.levels[1]
        front == l0[1]
    IN
    IF Len(front.dataBlockIndex) = 0 THEN [panic |-> TRUE, lm |-> lm]
    ELSE IF overlapLNPanics(l0, StartKeyOf(front), EndKeyOf(front)) THEN [panic |-> TRUE, lm |-> lm]
    ELSE
      LET l0Pos == overlapLN(l0, StartKeyOf(front), EndKeyOf(front)) IN
      IF l0Pos = {} THEN [panic |-> TRUE, lm |-> lm]
      ELSE
        LET b == boundary(SelectAt(l0, l0Pos, 1)) IN
        IF overlapLNPanics(lm.levels[2], b.start, b.end) THEN [panic |-> TRUE, lm |-> lm]
        ELSE CompactInto(lm, 0, l0Pos, overlapLN(lm.levels[2], b.start, b.end), low, nanNegative)

\* LN -> LN+1 (n >= 1): the front table of level n
compactLN(lm0, n, low, nanNegative) ==
    LET lm == WithLevel(lm0, n + 1)
        lnTable == lm.levels[n + 1][1]
    IN
    IF Len(lnTable.dataBlockIndex) = 0 THEN [panic |-> TRUE, lm |-> lm]
    ELSE
      LET b == boundary(<<lnTable>>) IN
      IF overlapLNPanics(lm.levels[n + 2], b.start, b.end) THEN [panic |-> TRUE, lm |-> lm]
      ELSE CompactInto(lm, n, {1}, overlapLN(lm.levels[n + 2], b.start, b.end), low, nanNegative)

\* checkAndCompact: the levels that existed on entry, in order
RECURSIVE CompactFromTarget(_, _, _, _, _, _)
CompactFromTarget(lm, i, n, low, nanNegative, l0TargetNum) ==
    IF i >= n THEN [panic |-> FALSE, lm |-> lm]
    ELSE IF Len(lm.levels[i + 1]) > l0TargetNum * Pow(LevelRatio, i)
    THEN LET r == IF i = 0 THEN compactL0(lm, low, nanNegative)
                  ELSE compactLN(lm, i, low, nanNegative) IN
         IF r.panic THEN r
         ELSE CompactFromTarget(r.lm, i + 1, n, low, nanNegative, l0TargetNum)
    ELSE CompactFromTarget(lm, i + 1, n, low, nanNegative, l0TargetNum)

CompactFrom(lm, i, n, low, nanNegative) ==
    CompactFromTarget(lm, i, n, low, nanNegative, L0TargetNum)

checkAndCompact(lm, low, nanNegative) == CompactFrom(lm, 0, Len(lm.levels), low, nanNegative)

(***************************************************************************)
(* The database: oracle, watermarks, transactions, memtable, flush worker  *)
(***************************************************************************)
\* inputs of the API calls
UserKeys == {<<97>>}
UserValues == {<<118>>}

\* number of transactions, API calls per transaction
\* transactions open at the same time, transactions begun, calls per transaction
NumTxns == 2
MaxBegin == 2
MaxOps == 2

Txns == 1..NumTxns

\* capacity of a watermark's mark channel (_markCBufferSize, scaled down)
MarkCBuffer == 1

\* timestamps of the marks sent to a watermark on its own, and their number
MaxMarkTs == 2
MaxMarks == 4

\* no mark processed yet: per timestamp the Begin and Done marks processed;
\* early: a Begin was processed at a timestamp <= doneUntil; unmatched: a
\* Done was processed beyond the Begins of its timestamp
NoMarkLog == [begins |-> [ts \in 0..MaxMarkTs |-> 0], dones |-> [ts \in 0..MaxMarkTs |-> 0],
              early |-> FALSE, unmatched |-> FALSE]

\* no library function has been called on its own
NoCall == [op |-> "none"]

VARIABLES
    panicked,       \* a goroutine panicked: the process is gone
    nextTs, lastCleanUpTs, committedTxns, writeLock,   \* oracle
    readMark, commitMark,                              \* watermarks
    txn,            \* the transactions and the position of their callers
    memtable, immutables, flushC,                      \* DB
    walFiles, walSeq,                                  \* WAL files of the directory
    lm,             \* levelManager: levels and table files
    worker,         \* position of DB.run
    commitLog,      \* history: the successful commits
    begun,          \* number of transactions begun
    markLog,        \* history: the Begin and Done marks a watermark has processed
    call            \* a call of a library function on its own: arguments and result

vars == <<panicked, nextTs, lastCleanUpTs, committedTxns, writeLock, readMark, commitMark,
          txn, memtable, immutables, flushC, walFiles, walSeq, lm, worker, commitLog, begun, markLog, call>>

oracleVars == <<nextTs, lastCleanUpTs, committedTxns, writeLock>>
storeVars == <<memtable, immutables, flushC, walFiles, walSeq, lm, worker>>

\* utils.Hash: a 64-bit fingerprint of the key
RECURSIVE ByteSum(_)
ByteSum(s) == IF Len(s) = 0 THEN 0 ELSE s[1] + 31 * ByteSum(Tail(s))

Hash(key) == ByteSum(key)

\* watermark.New, and a mark sent on markC
NewWaterMark == [doneUntil |-> 0, markC |-> <<>>, pending |-> <<>>, waiters |-> {}]

NoWaiter == 0

mark(ts, done, waiter) == [ts |-> ts, done |-> done, waiter |-> waiter]

\* WaterMark.Begin, WaterMark.Done: a send on markC
CanSend(w) == Len(w.markC) < MarkCBuffer

\* a Begin that never reaches the coordinator
WaterMarkBeginLost(w, ts) == w

WaterMarkBegin(w, ts) == [w EXCEPT !.markC = Append(@, mark(ts, FALSE, NoWaiter))]

WaterMarkDone(w, ts) == [w EXCEPT !.markC = Append(@, mark(ts, TRUE, NoWaiter))]

\* a "check if done" loop that stops after the first timestamp
DrainDoneOne(pending, doneUntil) ==
    IF DOMAIN pending = {} THEN [pending |-> pending, doneUntil |-> doneUntil]
    ELSE LET minTs == CHOOSE t \in DOMAIN pending : \A u \in DOMAIN pending : t <= u IN
         IF pending[minTs] > 0 THEN [pending |-> pending, doneUntil |-> doneUntil]
         ELSE [pending |-> [t \in DOMAIN pending \ {minTs} |-> pending[t]], doneUntil |-> minTs]

\* the "check if done" loop of process: the heap holds DOMAIN pending
RECURSIVE DrainDone(_, _)
DrainDone(pending, doneUntil) ==
    IF DOMAIN pending = {} THEN [pending |-> pending, doneUntil |-> doneUntil]
    ELSE LET minTs == CHOOSE t \in DOMAIN pending : \A u \in DOMAIN pending : t <= u IN
         IF pending[minTs] > 0 THEN [pending |-> pending, doneUntil |-> doneUntil]
         ELSE DrainDone([t \in DOMAIN pending \ {minTs} |-> pending[t]], minTs)

\* an iteration that forgets the earlier marks of the timestamp
ApplyMarkNoCount(w, m) ==
    LET cnt == IF m.done THEN -1 ELSE 1
        pending == [t \in DOMAIN w.pending \cup {m.ts} |->
                       IF t = m.ts THEN cnt ELSE w.pending[t]]
        d == DrainDone(pending, w.doneUntil)
    IN IF d.doneUntil > w.doneUntil
       THEN [w EXCEPT !.pending = d.pending, !.doneUntil = d.doneUntil,
                      !.waiters = {x \in w.waiters : x.ts > d.doneUntil}]
       ELSE [w EXCEPT !.pending = d.pending]

\* an iteration that stores doneUntil without comparing it
ApplyMarkStoreAlways(w, m) ==
    LET prev == IF m.ts \in DOMAIN w.pending THEN w.pending[m.ts] ELSE 0
        cnt == IF m.done THEN -1 ELSE 1
        pending == [t \in DOMAIN w.pending \cup {m.ts} |->
                       IF t = m.ts THEN prev + cnt ELSE w.pending[t]]
        d == DrainDone(pending, w.doneUntil)
    IN [w EXCEPT !.pending = d.pending, !.doneUntil = d.doneUntil,
                 !.waiters = {x \in w.waiters : x.ts > d.doneUntil}]

\* one iteration of process on a Begin or Done mark
ApplyMark(w, m) ==
    LET prev == IF m.ts \in DOMAIN w.pending THEN w.pending[m.ts] ELSE 0
        cnt == IF m.done THEN -1 ELSE 1
        pending == [t \in DOMAIN w.pending \cup {m.ts} |->
                       IF t = m.ts THEN prev + cnt ELSE w.pending[t]]
        d == DrainDone(pending, w.doneUntil)
    IN IF d.doneUntil > w.doneUntil
       THEN [w EXCEPT !.pending = d.pending, !.doneUntil = d.doneUntil,
                      !.waiters = {x \in w.waiters : x.ts > d.doneUntil}]
       ELSE [w EXCEPT !.pending = d.pending]

\* the waiters that ApplyMark closes
Woken(w, m) == {x.waiter : x \in w.waiters \ ApplyMark(w, m).waiters}

\* newMemtable / memtable.reset: an empty skip list over a WAL file
mkMemtable(version) == [skiplist |-> EmptySkipList, wal |-> version]

NewTxn == [pc |-> "idle", readTs |-> 0, readOnly |-> FALSE, discarded |-> FALSE,
           doneRead |-> FALSE, readsFp |-> {}, writesFp |-> {}, pendingWrites |-> <<>>,
           commitTs |-> 0, toWrite |-> {}, result |-> "none", ops |-> 0,
           id |-> 0, gets |-> {}, logLen |-> 0]

\* a discarded transaction: nothing but the flag is looked at any more
ClosedTxn == [NewTxn EXCEPT !.pc = "closed", !.discarded = TRUE, !.doneRead = TRUE]

\* Open on an empty directory: maxTs = 0
Init ==
    /\ panicked = FALSE
    /\ nextTs = 1
    /\ lastCleanUpTs = 0
    /\ committedTxns = <<>>
    /\ writeLock = FALSE
    /\ readMark = WaterMarkDone(NewWaterMark, 0)
    /\ commitMark = WaterMarkDone(NewWaterMark, 0)
    /\ txn = [t \in Txns |-> NewTxn]
    /\ memtable = mkMemtable(1)
    /\ immutables = <<>>
    /\ flushC = <<>>
    /\ walFiles = [v \in {1} |-> <<>>]
    /\ walSeq = 1
    /\ lm = [levels |-> <<>>, files |-> NoFiles]
    /\ worker = [pc |-> "select", imt |-> mkMemtable(0)]
    /\ commitLog = <<>>
    /\ begun = 0
    /\ markLog = NoMarkLog
    /\ call = NoCall

(***************************************************************************)
(* Watermark coordinators (WaterMark.process)                              *)
(***************************************************************************)
\* an iteration that parks every waiter
ProcessOneParkAlways(w) ==
    LET m == Head(w.markC)
        w1 == [w EXCEPT !.markC = Tail(@)]
    IN IF m.waiter # NoWaiter
       THEN [w |-> [w1 EXCEPT !.waiters = @ \cup {[ts |-> m.ts, waiter |-> m.waiter]}],
             woken |-> {}]
       ELSE [w |-> ApplyMark(w1, m), woken |-> Woken(w1, m)]

\* an iteration that counts a waiter as a Begin of its timestamp
ProcessOneCountsWaiters(w) ==
    LET m == Head(w.markC)
        w1 == [w EXCEPT !.markC = Tail(@)]
    IN IF m.waiter # NoWaiter
       THEN IF w1.doneUntil >= m.ts
            THEN [w |-> w1, woken |-> {m.waiter}]
            ELSE [w |-> [ApplyMark(w1, m) EXCEPT
                            !.waiters = @ \cup {[ts |-> m.ts, waiter |-> m.waiter]}],
                  woken |-> {}]
       ELSE [w |-> ApplyMark(w1, m), woken |-> Woken(w1, m)]

\* one iteration of process: the mark at the head of markC
ProcessOne(w) ==
    LET m == Head(w.markC)
        w1 == [w EXCEPT !.markC = Tail(@)]
    IN IF m.waiter # NoWaiter
       THEN IF w1.doneUntil >= m.ts
            THEN [w |-> w1, woken |-> {m.waiter}]
            ELSE [w |-> [w1 EXCEPT !.waiters = @ \cup {[ts |-> m.ts, waiter |-> m.waiter]}],
                  woken |-> {}]
       ELSE [w |-> ApplyMark(w1, m), woken |-> Woken(w1, m)]

ReadMarkProcess ==
    /\ ~panicked
    /\ Len(readMark.markC) > 0
    /\ readMark' = ProcessOne(readMark).w
    /\ UNCHANGED <<panicked, oracleVars, commitMark, txn, storeVars, commitLog, begun, markLog, call>>

\* a closed waiter channel lets its transaction's WaitForMark, readTs and Begin return
CommitMarkProcess ==
    /\ ~panicked
    /\ Len(commitMark.markC) > 0
    /\ commitMark' = ProcessOne(commitMark).w
    /\ txn' = [t \in Txns |-> IF t \in ProcessOne(commitMark).woken
                              THEN [txn[t] EXCEPT !.pc = "active"] ELSE txn[t]]
    /\ UNCHANGED <<panicked, oracleVars, readMark, storeVars, commitLog, begun, markLog, call>>

(***************************************************************************)
(* DB.Begin and oracle.readTs                                              *)
(***************************************************************************)
\* readTs, the locked part: the read timestamp is taken and begun on readMark
BeginWith(t, update, bound) ==
    /\ ~panicked
    /\ txn[t].pc \in {"idle", "closed"}
    /\ \A u \in Txns : u < t => txn[u].pc \notin {"idle", "closed"}
    /\ begun < bound
    /\ begun' = begun + 1
    /\ CanSend(readMark)
    /\ readMark' = WaterMarkBegin(readMark, nextTs - 1)
    /\ txn' = [txn EXCEPT ![t] = [NewTxn EXCEPT !.pc = "waitForMark",
                                                !.readTs = nextTs - 1,
                                                !.readOnly = ~update,
                                                !.id = begun + 1]]
    /\ UNCHANGED <<panicked, oracleVars, commitMark, storeVars, commitLog, markLog, call>>

Begin(t, update) == BeginWith(t, update, MaxBegin)

\* WaitForMark's test: the mark is already done
\* a WaitForMark that returns without looking at the mark
MarkReachedAlways(w, ts) == TRUE

MarkReached(w, ts) == w.doneUntil >= ts

\* commitMark.WaitForMark(readTs): DoneUntil() >= ts returns at once
WaitForMarkDone(t) ==
    /\ ~panicked
    /\ txn[t].pc = "waitForMark"
    /\ MarkReached(commitMark, txn[t].readTs)
    /\ txn' = [txn EXCEPT ![t].pc = "active"]
    /\ UNCHANGED <<panicked, oracleVars, readMark, commitMark, storeVars, commitLog, begun, markLog, call>>

\* commitMark.WaitForMark(readTs): otherwise a waiter is sent to the coordinator
WaitForMarkSend(t) ==
    /\ ~panicked
    /\ txn[t].pc = "waitForMark"
    /\ ~MarkReached(commitMark, txn[t].readTs)
    /\ CanSend(commitMark)
    /\ commitMark' = [commitMark EXCEPT !.markC = Append(@, mark(txn[t].readTs, FALSE, t))]
    /\ txn' = [txn EXCEPT ![t].pc = "parked"]
    /\ UNCHANGED <<panicked, oracleVars, readMark, storeVars, commitLog, begun, markLog, call>>

(***************************************************************************)
(* DB.search                                                               *)
(***************************************************************************)
Found(entry) == [panic |-> FALSE, found |-> ~entry.Tombstone,
                 value |-> IF entry.Tombstone THEN <<>> ELSE entry.Value]
NotFound == [panic |-> FALSE, found |-> FALSE, value |-> <<>>]
Panic == [panic |-> TRUE, found |-> FALSE, value |-> <<>>]

\* memtable.lowerBound
memtableLowerBound(mt, key) == SkipListLowerBound(mt.skiplist, key)

\* the sstable part of search
searchTables(m, key, FP) ==
    LET r == searchLowerBound(m.levels, m.files, key, FP) IN
    IF r.panic THEN Panic
    ELSE IF ~r.ok THEN NotFound
    ELSE IF IsSameKeyPanics(key, r.entry.Key) THEN Panic
    ELSE IF IsSameKey(key, r.entry.Key) THEN Found(r.entry)
    ELSE NotFound

\* the immutables part of search, from the back (i = Len) to the front
RECURSIVE searchImmutables(_, _, _, _, _)
searchImmutables(imts, i, m, key, FP) ==
    IF i = 0 THEN searchTables(m, key, FP)
    ELSE LET r == memtableLowerBound(imts[i], key) IN
         IF r.panic THEN Panic
         ELSE IF r.ok /\ IsSameKeyPanics(key, r.entry.Key) THEN Panic
         ELSE IF r.ok /\ IsSameKey(key, r.entry.Key) THEN Found(r.entry)
         ELSE searchImmutables(imts, i - 1, m, key, FP)

search(mt, imts, m, key, FP) ==
    LET r == memtableLowerBound(mt, key) IN
    IF r.panic THEN Panic
    ELSE IF r.ok /\ IsSameKeyPanics(key, r.entry.Key) THEN Panic
    ELSE IF r.ok /\ IsSameKey(key, r.entry.Key) THEN Found(r.entry)
    ELSE searchImmutables(imts, Len(imts), m, key, FP)

\* the tables a probe can meet; each may answer with a false positive
TableNames(m) == UNION {{fileName(l - 1, m.levels[l][j].levelIdx) : j \in 1..Len(m.levels[l])} :
                           l \in 1..Len(m.levels)}

(***************************************************************************)
(* Txn                                                                     *)
(***************************************************************************)
CanCall(t) == ~panicked /\ txn[t].pc = "active" /\ txn[t].ops < MaxOps

\* Txn.Get: a writer's own pending write is returned without a read
\* fingerprint; otherwise the fingerprint is recorded and key@readTs is
\* searched
\* a Get of an own write that records the read fingerprint all the same
GetOwnRecordsFp(t, k) ==
    /\ CanCall(t)
    /\ ~txn[t].readOnly /\ k \in DOMAIN txn[t].pendingWrites
    /\ txn' = [txn EXCEPT ![t].ops = @ + 1,
                          ![t].readsFp = @ \cup {Hash(k)},
                          ![t].gets = @ \cup {[key |-> k, own |-> TRUE,
                               res |-> IF txn[t].pendingWrites[k].Tombstone
                                       THEN "ErrKeyNotFound" ELSE "value",
                               value |-> IF txn[t].pendingWrites[k].Tombstone
                                         THEN <<>> ELSE txn[t].pendingWrites[k].Value]}]
    /\ UNCHANGED <<panicked, oracleVars, readMark, commitMark, storeVars, commitLog, begun, markLog, call>>

GetOwn(t, k) ==
    /\ CanCall(t)
    /\ ~txn[t].readOnly /\ k \in DOMAIN txn[t].pendingWrites
    /\ txn' = [txn EXCEPT ![t].ops = @ + 1,
                          ![t].gets = @ \cup {[key |-> k, own |-> TRUE,
                               res |-> IF txn[t].pendingWrites[k].Tombstone
                                       THEN "ErrKeyNotFound" ELSE "value",
                               value |-> IF txn[t].pendingWrites[k].Tombstone
                                         THEN <<>> ELSE txn[t].pendingWrites[k].Value]}]
    /\ UNCHANGED <<panicked, oracleVars, readMark, commitMark, storeVars, commitLog, begun, markLog, call>>

Get(t, k) ==
    /\ CanCall(t)
    /\ txn[t].readOnly \/ k \notin DOMAIN txn[t].pendingWrites
    /\ \E FP \in SUBSET TableNames(lm) :
       \E r \in {search(memtable, immutables, lm, KeyWithTs(k, txn[t].readTs), FP)} :
         /\ panicked' = r.panic
         /\ txn' = [txn EXCEPT ![t].ops = @ + 1,
                               ![t].readsFp = @ \cup {Hash(k)},
                               ![t].gets = @ \cup {[key |-> k, own |-> FALSE,
                                    res |-> IF r.panic THEN "panic"
                                            ELSE IF r.found THEN "value" ELSE "notfound",
                                    value |-> r.value]}]
    /\ UNCHANGED <<oracleVars, readMark, commitMark, storeVars, commitLog, begun, markLog, call>>

\* Txn.modify
modify(t, e) ==
    /\ CanCall(t)
    /\ txn' = IF txn[t].readOnly
              THEN txn  \* ErrReadOnlyTxn
              ELSE [txn EXCEPT ![t].ops = @ + 1,
                               ![t].writesFp = @ \cup {Hash(e.Key)},
                               ![t].pendingWrites =
                                   [k \in DOMAIN @ \cup {e.Key} |-> IF k = e.Key THEN e ELSE @[k]]]
    /\ UNCHANGED <<panicked, oracleVars, readMark, commitMark, storeVars, commitLog, begun, markLog, call>>

Set(t, k, v) == modify(t, MkEntry(k, v, FALSE, 0))

Delete(t, k) == modify(t, MkEntry(k, <<>>, TRUE, 0))

\* oracle.doneRead
\* a doneRead that sends Done whatever the transaction's flag says
doneReadAlways(w, tx) == WaterMarkDone(w, tx.readTs)

doneRead(w, tx) == IF tx.doneRead THEN w ELSE WaterMarkDone(w, tx.readTs)

\* Txn.Discard
Discard(t) ==
    /\ ~panicked
    /\ txn[t].pc \in {"active", "returned"}
    /\ ~txn[t].discarded
    /\ CanSend(readMark)
    /\ readMark' = doneRead(readMark, txn[t])
    /\ txn' = [txn EXCEPT ![t] = ClosedTxn]
    /\ UNCHANGED <<panicked, oracleVars, commitMark, storeVars, commitLog, begun, markLog, call>>

\* oracle.hasConflict
\* a conflict check that never reports a conflict
hasConflictNever(tx) == FALSE

\* a conflict check that skips the commit made just after the read timestamp
hasConflictOffByOne(tx) ==
    /\ tx.readsFp # {}
    /\ \E i \in 1..Len(committedTxns) :
          /\ committedTxns[i].ts > tx.readTs + 1
          /\ committedTxns[i].writesFp \cap tx.readsFp # {}

\* a conflict check that matches the write fingerprints as well as the reads
hasConflictOnWrites(tx) ==
    \E i \in 1..Len(committedTxns) :
        /\ committedTxns[i].ts > tx.readTs
        /\ committedTxns[i].writesFp \cap (tx.readsFp \cup tx.writesFp) # {}

hasConflict(tx) ==
    /\ tx.readsFp # {}
    /\ \E i \in 1..Len(committedTxns) :
          /\ committedTxns[i].ts > tx.readTs
          /\ committedTxns[i].writesFp \cap tx.readsFp # {}

\* oracle.cleanUpCommittedTxns with maxReadTs = readMark.DoneUntil()
cleanUpPanics(maxReadTs) == maxReadTs < lastCleanUpTs

\* a clean-up that drops every record at or below the newest commit
cleanUpCommittedTxnsAll(maxReadTs) ==
    SelectSeq(committedTxns, LAMBDA c : c.ts > nextTs - 1)

cleanUpCommittedTxns(maxReadTs) ==
    IF maxReadTs = lastCleanUpTs THEN committedTxns
    ELSE SelectSeq(committedTxns, LAMBDA c : c.ts > maxReadTs)

\* Txn.Commit without pending writes: Discard
CommitEmpty(t) ==
    /\ ~panicked
    /\ txn[t].pc = "active"
    /\ DOMAIN txn[t].pendingWrites = {}
    /\ CanSend(readMark)
    /\ readMark' = doneRead(readMark, txn[t])
    /\ txn' = [txn EXCEPT ![t].doneRead = TRUE, ![t].discarded = TRUE,
                          ![t].pc = "returned", ![t].result = "ok",
                          ![t].logLen = Len(commitLog)]
    /\ UNCHANGED <<panicked, oracleVars, commitMark, storeVars, commitLog, begun, markLog, call>>

\* Txn.Commit: writeLock is taken; newCommitTs finds a conflict
\* a conflict found only after the commit timestamp has been taken
CommitConflictTakesTs(t) ==
    /\ ~panicked
    /\ txn[t].pc = "active"
    /\ DOMAIN txn[t].pendingWrites # {}
    /\ ~writeLock
    /\ hasConflict(txn[t])
    /\ nextTs' = nextTs + 1
    /\ txn' = [txn EXCEPT ![t].pc = "returned", ![t].result = "ErrConflictTxn",
                          ![t].logLen = Len(commitLog)]
    /\ UNCHANGED <<panicked, lastCleanUpTs, committedTxns, writeLock, readMark, commitMark,
                   storeVars, commitLog, begun, markLog, call>>

CommitConflict(t) ==
    /\ ~panicked
    /\ txn[t].pc = "active"
    /\ DOMAIN txn[t].pendingWrites # {}
    /\ ~writeLock
    /\ hasConflict(txn[t])
    /\ txn' = [txn EXCEPT ![t].pc = "returned", ![t].result = "ErrConflictTxn",
                          ![t].logLen = Len(commitLog)]
    /\ UNCHANGED <<panicked, oracleVars, readMark, commitMark, storeVars, commitLog, begun, markLog, call>>

\* oracle.newCommitTs without conflict: the timestamp handed out, the next
\* one, and the committed transactions after clean-up and append
newCommitTsNoIncrement(tx, maxReadTs) ==
    [ts |-> nextTs,
     nextTs |-> nextTs,
     committedTxns |-> Append(cleanUpCommittedTxns(maxReadTs),
                              [ts |-> nextTs, writesFp |-> tx.writesFp])]

newCommitTs(tx, maxReadTs) ==
    [ts |-> nextTs,
     nextTs |-> nextTs + 1,
     committedTxns |-> Append(cleanUpCommittedTxns(maxReadTs),
                              [ts |-> nextTs, writesFp |-> tx.writesFp])]

\* Txn.Commit: writeLock is taken; newCommitTs assigns the commit timestamp
CommitStart(t) ==
    /\ ~panicked
    /\ txn[t].pc = "active"
    /\ DOMAIN txn[t].pendingWrites # {}
    /\ ~writeLock
    /\ ~hasConflict(txn[t])
    /\ CanSend(readMark) /\ CanSend(commitMark)
    /\ readMark' = doneRead(readMark, txn[t])
    /\ writeLock' = TRUE
    /\ IF cleanUpPanics(readMark.doneUntil)
       THEN /\ panicked' = TRUE
            /\ txn' = [txn EXCEPT ![t].doneRead = TRUE]
            /\ UNCHANGED <<nextTs, lastCleanUpTs, committedTxns, commitMark, commitLog>>
       ELSE LET r == newCommitTs(txn[t], readMark.doneUntil) IN
            /\ lastCleanUpTs' = readMark.doneUntil
            /\ nextTs' = r.nextTs
            /\ commitMark' = WaterMarkBegin(commitMark, r.ts)
            /\ committedTxns' = r.committedTxns
            /\ txn' = [txn EXCEPT ![t].doneRead = TRUE, ![t].commitTs = r.ts,
                                  ![t].toWrite = DOMAIN txn[t].pendingWrites,
                                  ![t].pc = "writing", ![t].logLen = Len(commitLog)]
            /\ commitLog' = Append(commitLog,
                                   [ts |-> r.ts, id |-> txn[t].id, readTs |-> txn[t].readTs,
                                    writes |-> txn[t].pendingWrites, gets |-> txn[t].gets,
                                    readsFp |-> txn[t].readsFp, writesFp |-> txn[t].writesFp,
                                    returned |-> FALSE])
            /\ UNCHANGED panicked
    /\ UNCHANGED <<storeVars, begun, markLog, call>>

\* wal.Write: the entry is appended to the memtable's WAL file
walWrite(files, version, entry) == [files EXCEPT ![version] = Append(@, entry)]

\* Txn.Commit, one iteration of the loop over pendingWrites, in rawset:
\* memtable.set (skip list, then WAL) and the size check with freeze
CommitWrite(t) ==
    /\ ~panicked
    /\ txn[t].pc = "writing"
    /\ \E k \in txn[t].toWrite, level \in 1..SkipListMaxLevel :
         LET v == txn[t].pendingWrites[k]
             r == SkipListSet(memtable.skiplist,
                              MkEntry(v.Key, v.Value, v.Tombstone, txn[t].commitTs), level)
         IN IF r.panic
            THEN /\ panicked' = TRUE
                 /\ UNCHANGED <<memtable, walFiles, txn>>
            ELSE /\ memtable' = [memtable EXCEPT !.skiplist = r.sl]
                 /\ walFiles' = walWrite(walFiles, memtable.wal,
                                         MkEntry(v.Key, v.Value, v.Tombstone, txn[t].commitTs))
                 /\ txn' = [txn EXCEPT ![t].toWrite = @ \ {k},
                                       ![t].pc = IF r.sl.size >= MemtableByteThreshold
                                                 THEN "sending" ELSE "writing"]
                 /\ UNCHANGED panicked
    /\ UNCHANGED <<oracleVars, readMark, commitMark, immutables, flushC, walSeq, lm, worker,
                   commitLog, begun, markLog, call>>

\* rawset: db.flushC <- imt, blocking while the channel is full
CommitSend(t) ==
    /\ ~panicked
    /\ txn[t].pc = "sending"
    /\ Len(flushC) < ImmutableBuffer
    /\ flushC' = Append(flushC, memtable)
    /\ txn' = [txn EXCEPT ![t].pc = "pushing"]
    /\ UNCHANGED <<panicked, oracleVars, readMark, commitMark, memtable, immutables,
                   walFiles, walSeq, lm, worker, commitLog, begun, markLog, call>>

\* rawset: immutables.PushBack(imt), then memtable.reset (wal.Reset creates
\* the WAL file of the next version, the skip list is new)
CommitPush(t) ==
    /\ ~panicked
    /\ txn[t].pc = "pushing"
    /\ immutables' = Append(immutables, memtable)
    /\ memtable' = mkMemtable(walSeq + 1)
    /\ walSeq' = walSeq + 1
    /\ walFiles' = [v \in DOMAIN walFiles \cup {walSeq + 1} |->
                       IF v = walSeq + 1 THEN <<>> ELSE walFiles[v]]
    /\ txn' = [txn EXCEPT ![t].pc = "writing"]
    /\ UNCHANGED <<panicked, oracleVars, readMark, commitMark, flushC, lm, worker,
                   commitLog, begun, markLog, call>>

\* Txn.Commit after the loop: commitMark.Done(commitTs), writeLock released
CommitDone(t) ==
    /\ ~panicked
    /\ txn[t].pc = "writing"
    /\ txn[t].toWrite = {}
    /\ CanSend(commitMark)
    /\ commitMark' = WaterMarkDone(commitMark, txn[t].commitTs)
    /\ writeLock' = FALSE
    /\ txn' = [txn EXCEPT ![t].pc = "returned", ![t].result = "ok"]
    /\ commitLog' = [i \in 1..Len(commitLog) |->
                        IF commitLog[i].ts = txn[t].commitTs
                        THEN [commitLog[i] EXCEPT !.returned = TRUE] ELSE commitLog[i]]
    /\ UNCHANGED <<panicked, nextTs, lastCleanUpTs, committedTxns, readMark, storeVars, begun, markLog, call>>

(***************************************************************************)
(* DB.run: the flush worker                                                *)
(***************************************************************************)
\* case imt := <-db.flushC
WorkerReceive ==
    /\ ~panicked
    /\ worker.pc = "select"
    /\ Len(flushC) > 0
    /\ worker' = [pc |-> "flushToL0", imt |-> Head(flushC)]
    /\ flushC' = Tail(flushC)
    /\ UNCHANGED <<panicked, oracleVars, readMark, commitMark, txn, memtable, immutables,
                   walFiles, walSeq, lm, commitLog, begun, markLog, call>>

\* flushImmutable: manager.flushToL0(imt.all())
WorkerFlush ==
    /\ ~panicked
    /\ worker.pc = "flushToL0"
    /\ lm' = flushToL0(lm, SkipListAll(worker.imt.skiplist))
    /\ worker' = [worker EXCEPT !.pc = "walDelete"]
    /\ UNCHANGED <<panicked, oracleVars, readMark, commitMark, txn, memtable, immutables,
                   flushC, walFiles, walSeq, commitLog, begun, markLog, call>>

\* flushImmutable: imt.wal.Delete()
WorkerWalDelete ==
    /\ ~panicked
    /\ worker.pc = "walDelete"
    /\ walFiles' = [v \in DOMAIN walFiles \ {worker.imt.wal} |-> walFiles[v]]
    /\ worker' = [worker EXCEPT !.pc = "checkAndCompact"]
    /\ UNCHANGED <<panicked, oracleVars, readMark, commitMark, txn, memtable, immutables,
                   flushC, walSeq, lm, commitLog, begun, markLog, call>>

\* manager.checkAndCompact()
WorkerCompact ==
    /\ ~panicked
    /\ worker.pc = "checkAndCompact"
    /\ \E nanNegative \in BOOLEAN :
         LET r == checkAndCompact(lm, readMark.doneUntil, nanNegative) IN
         /\ panicked' = r.panic
         /\ lm' = r.lm
    /\ worker' = [worker EXCEPT !.pc = "remove"]
    /\ UNCHANGED <<oracleVars, readMark, commitMark, txn, memtable, immutables,
                   flushC, walFiles, walSeq, commitLog, begun, markLog, call>>

\* db.immutables.Remove(db.immutables.Back()): Back() of an empty list is nil
WorkerRemove ==
    /\ ~panicked
    /\ worker.pc = "remove"
    /\ IF Len(immutables) = 0
       THEN panicked' = TRUE /\ UNCHANGED immutables
       ELSE immutables' = SubSeq(immutables, 1, Len(immutables) - 1) /\ UNCHANGED panicked
    /\ worker' = [worker EXCEPT !.pc = "select"]
    /\ UNCHANGED <<oracleVars, readMark, commitMark, txn, memtable, flushC, walFiles, walSeq,
                   lm, commitLog, begun, markLog, call>>

Next ==
    \/ ReadMarkProcess
    \/ CommitMarkProcess
    \/ \E t \in Txns, update \in BOOLEAN : Begin(t, update)
    \/ \E t \in Txns : WaitForMarkDone(t)
    \/ \E t \in Txns : WaitForMarkSend(t)
    \/ \E t \in Txns, k \in UserKeys : GetOwn(t, k)
    \/ \E t \in Txns, k \in UserKeys : Get(t, k)
    \/ \E t \in Txns, k \in UserKeys, v \in UserValues : Set(t, k, v)
    \/ \E t \in Txns, k \in UserKeys : Delete(t, k)
    \/ \E t \in Txns : Discard(t)
    \/ \E t \in Txns : CommitEmpty(t)
    \/ \E t \in Txns : CommitConflict(t)
    \/ \E t \in Txns : CommitStart(t)
    \/ \E t \in Txns : CommitWrite(t)
    \/ \E t \in Txns : CommitSend(t)
    \/ \E t \in Txns : CommitPush(t)
    \/ \E t \in Txns : CommitDone(t)
    \/ WorkerReceive
    \/ WorkerFlush
    \/ WorkerWalDelete
    \/ WorkerCompact
    \/ WorkerRemove

Spec == Init /\ [][Next]_vars

(***************************************************************************)
(* Properties of the database                                              *)
(***************************************************************************)
\* what a read of user key k at timestamp r has to return: the write of the
\* commit of the greatest timestamp <= r among those that wrote k
Writers(k, r) == {i \in 1..Len(commitLog) : commitLog[i].ts <= r /\ k \in DOMAIN commitLog[i].writes}

Expected(k, r) ==
    IF Writers(k, r) = {} THEN [res |-> "notfound", value |-> <<>>]
    ELSE LET i == CHOOSE i \in Writers(k, r) :
                      \A j \in Writers(k, r) : commitLog[j].ts <= commitLog[i].ts
         IN IF commitLog[i].writes[k].Tombstone
            THEN [res |-> "notfound", value |-> <<>>]
            ELSE [res |-> "value", value |-> commitLog[i].writes[k].Value]

Outcome(g) == [res |-> g.res, value |-> g.value]

BeginReturned(t) == txn[t].pc \in {"active", "writing", "sending", "pushing", "returned"}

\* C1: a Get(k) in a transaction with read timestamp r returns the value of
\* the commit with the greatest timestamp c <= r that wrote k, and not-found
\* when that write is a tombstone or there is no such commit.
C1_GetReturnsLatestCommitted ==
    \A t \in Txns : \A g \in txn[t].gets :
        ~g.own => Outcome(g) = Expected(g.key, txn[t].readTs)

\* a commit by another transaction, made before t's Commit call, that wrote
\* key k with a timestamp above t's read timestamp
WrittenSince(t, k) ==
    \E i \in 1..txn[t].logLen :
        /\ commitLog[i].id # txn[t].id
        /\ commitLog[i].ts > txn[t].readTs
        /\ k \in DOMAIN commitLog[i].writes

Concurrent(i, j) == i < j /\ commitLog[j].readTs < commitLog[i].ts

BothSucceeded(i, j) == commitLog[i].returned /\ commitLog[j].returned

C4_Serializable ==
    \A i \in 1..Len(commitLog) :
        commitLog[i].returned =>
            \A g \in commitLog[i].gets :
                ~g.own => Outcome(g) = Expected(g.key, commitLog[i].ts - 1)

\* C5: next_ts never decreases, and every commit timestamp handed out is
\* strictly greater than all commit timestamps handed out before it.
C5_TimestampsMonotone ==
    [][/\ nextTs' >= nextTs
       /\ Len(commitLog') > Len(commitLog) =>
             \A i \in 1..Len(commitLog) :
                 commitLog'[Len(commitLog')].ts > commitLog[i].ts]_vars

C5_Witness ==
    /\ Len(commitLog) >= 2
    /\ \A i \in 1..Len(commitLog) : commitLog[i].returned

\* a commit whose timestamp has been handed out and whose writes have not
\* all been applied yet
StillWriting(ts) ==
    \E u \in Txns : txn[u].pc \in {"writing", "sending", "pushing"} /\ txn[u].commitTs = ts

\* C6: once Begin has returned a transaction with read timestamp R,
\* commit_mark.done_until >= R and every commit with a timestamp <= R has
\* been applied in full.
C6_BeginWaitsForCommits ==
    \A t \in Txns :
        BeginReturned(t) =>
            /\ commitMark.doneUntil >= txn[t].readTs
            /\ \A i \in 1..Len(commitLog) :
                   commitLog[i].ts <= txn[t].readTs => ~StillWriting(commitLog[i].ts)

C6_Witness ==
    \E t \in Txns :
        /\ txn[t].pc = "active"
        /\ txn[t].readTs >= 1
        /\ \E i \in 1..Len(commitLog) : commitLog[i].ts = txn[t].readTs

\* C7: a transaction whose reads_fp is empty never gets ErrConflictTxn from
\* Commit.
C7_BlindWriterNeverConflicts ==
    \A t \in Txns : txn[t].result = "ErrConflictTxn" => txn[t].readsFp # {}

C7_Witness ==
    \E i, j \in 1..Len(commitLog) :
        /\ Concurrent(i, j)
        /\ BothSucceeded(i, j)
        /\ commitLog[j].readsFp = {}
        /\ commitLog[i].writesFp \cap commitLog[j].writesFp # {}

(***************************************************************************)
(* The level manager under a caller that hands it versioned entries        *)
(* (level_test.go): every flush is the memtable of one commit, keyed       *)
(* KeyWithTs(k, ts); the worker's flushToL0 and checkAndCompact alternate  *)
(* as in DB.run; readers search at their read timestamps.                  *)
(***************************************************************************)
LevelKeys == UserKeys

MaxVersion == 3

\* the value written at version ts
LevelValue(ts) == <<Zero + ts>>

\* the memtable of one commit: user key -> "set" or "delete"
LevelWrites == UNION {[S -> {"set", "delete"}] : S \in (SUBSET LevelKeys) \ {{}}}

\* flushImmutable of the memtable holding the commit ws at version nextTs
LevelFlushUpTo(ws, bound) ==
    /\ ~panicked
    /\ worker.pc = "select"
    /\ nextTs <= bound
    /\ LET writes == [k \in DOMAIN ws |->
                         MkEntry(KeyWithTs(k, nextTs),
                                 IF ws[k] = "set" THEN LevelValue(nextTs) ELSE <<>>,
                                 ws[k] = "delete", nextTs)]
       IN /\ lm' = flushToL0(lm, SortByCompareKeys(Range(writes)))
          /\ commitLog' = Append(commitLog,
                                 [ts |-> nextTs, id |-> 0, readTs |-> nextTs - 1,
                                  writes |-> writes, gets |-> {},
                                  readsFp |-> {}, writesFp |-> {Hash(k) : k \in DOMAIN ws},
                                  returned |-> TRUE])
    /\ nextTs' = nextTs + 1
    /\ worker' = [worker EXCEPT !.pc = "checkAndCompact"]
    /\ UNCHANGED <<panicked, lastCleanUpTs, committedTxns, writeLock, readMark, commitMark,
                   txn, memtable, immutables, flushC, walFiles, walSeq, begun, markLog, call>>

LevelFlush(ws) == LevelFlushUpTo(ws, MaxVersion)

\* manager.checkAndCompact() after the flush, D = readMark.DoneUntil()
LevelCompactTarget(l0TargetNum) ==
    /\ ~panicked
    /\ worker.pc = "checkAndCompact"
    /\ \E nanNegative \in BOOLEAN :
         LET r == CompactFromTarget(lm, 0, Len(lm.levels), readMark.doneUntil,
                                    nanNegative, l0TargetNum) IN
         /\ panicked' = r.panic
         /\ lm' = r.lm
    /\ worker' = [worker EXCEPT !.pc = "select"]
    /\ UNCHANGED <<oracleVars, readMark, commitMark, txn, memtable, immutables,
                   flushC, walFiles, walSeq, commitLog, begun, markLog, call>>

LevelCompact == LevelCompactTarget(L0TargetNum)

\* a reader begins: its read timestamp is nextTs - 1
LevelBegin(t) ==
    /\ ~panicked
    /\ txn[t].pc \in {"idle", "closed"}
    /\ \A u \in Txns : u < t => txn[u].pc \notin {"idle", "closed"}
    /\ begun < MaxBegin
    /\ begun' = begun + 1
    /\ txn' = [txn EXCEPT ![t] = [NewTxn EXCEPT !.pc = "active", !.readTs = nextTs - 1,
                                                !.readOnly = TRUE, !.id = begun + 1]]
    /\ UNCHANGED <<panicked, oracleVars, readMark, commitMark, storeVars, commitLog, markLog, call>>

\* the reader is discarded
LevelDiscard(t) ==
    /\ ~panicked
    /\ txn[t].pc = "active"
    /\ txn' = [txn EXCEPT ![t] = ClosedTxn]
    /\ UNCHANGED <<panicked, oracleVars, readMark, commitMark, storeVars, commitLog, begun, markLog, call>>

\* readMark.DoneUntil() advances to d: every reader at or below d is done
LevelReadDone(d) ==
    /\ ~panicked
    /\ d > readMark.doneUntil
    /\ d <= nextTs - 1
    /\ \A t \in Txns : txn[t].pc = "active" => d < txn[t].readTs
    /\ readMark' = [readMark EXCEPT !.doneUntil = d]
    /\ UNCHANGED <<panicked, oracleVars, commitMark, txn, storeVars, commitLog, begun, markLog, call>>

LevelNext ==
    \/ \E ws \in LevelWrites : LevelFlush(ws)
    \/ LevelCompact
    \/ \E t \in Txns : LevelBegin(t)
    \/ \E t \in Txns, k \in LevelKeys : Get(t, k)
    \/ \E t \in Txns : LevelDiscard(t)
    \/ \E d \in 1..MaxVersion : LevelReadDone(d)

LevelSpec == Init /\ [][LevelNext]_vars

\* the entries held by the tables of all levels
AllEntries(m) ==
    UNION {UNION {Range(fetchAll(m.files, l - 1, m.levels[l][j].levelIdx)) :
                     j \in 1..Len(m.levels[l])} : l \in 1..Len(m.levels)}

\* the latest commit at or below r that wrote k is a Delete, and a Set of k
\* was committed before it
DeletedAfterSet(k, r) ==
    /\ Writers(k, r) # {}
    /\ LET i == CHOOSE i \in Writers(k, r) :
                    \A j \in Writers(k, r) : commitLog[j].ts <= commitLog[i].ts
       IN /\ commitLog[i].writes[k].Tombstone
          /\ \E j \in Writers(k, r) :
                commitLog[j].ts < commitLog[i].ts /\ ~commitLog[j].writes[k].Tombstone

\* C8: after a committed Set of k followed by a committed Delete of k, every
\* Get(k) of a transaction that begins afterwards reports not-found, also
\* after both entries were flushed to L0 and went through compactions.
C8_DeletedStaysDeleted ==
    \A t \in Txns : \A g \in txn[t].gets :
        (~g.own /\ DeletedAfterSet(g.key, txn[t].readTs)) => g.res = "notfound"

\* the newest version of user key k at or below r among the entries S
VersionsAtOrBelow(S, k, r) == {e \in S : ParseKey(e.Key) = k /\ ParseTs(e.Key) <= r}

Newest(S, k, r) ==
    IF VersionsAtOrBelow(S, k, r) = {} THEN NoEntry
    ELSE CHOOSE e \in VersionsAtOrBelow(S, k, r) :
             \A f \in VersionsAtOrBelow(S, k, r) : ParseTs(f.Key) <= ParseTs(e.Key)

\* what a reader at r is to get for k from the entries S
Visible(S, k, r) ==
    LET e == Newest(S, k, r) IN
    IF e = NoEntry \/ e.Tombstone THEN <<"notfound">> ELSE <<"value", e.Value>>

\* C9: a checkAndCompact that runs to its end with D = discardAtOrBelow()
\* keeps every version > D, and for every user key k and every r >= D the
\* newest version of k at or below r is the same before and after,
\* tombstones included.
C9_CompactionPreservesVisibility ==
    [][(worker.pc = "checkAndCompact" /\ worker'.pc # "checkAndCompact" /\ ~panicked')
       => /\ \A e \in AllEntries(lm) :
                 ParseTs(e.Key) > readMark.doneUntil => e \in AllEntries(lm')
          /\ \A k \in LevelKeys, r \in 0..MaxVersion :
                 r >= readMark.doneUntil =>
                     Newest(AllEntries(lm'), k, r) = Newest(AllEntries(lm), k, r)]_vars

(***************************************************************************)
(* The database under sessions that run one after the other, each begun    *)
(* when the flush worker and the watermark coordinators are idle           *)
(***************************************************************************)
MaxSerialBegin == 3

Quiescent ==
    /\ worker.pc = "select"
    /\ Len(flushC) = 0
    /\ Len(readMark.markC) = 0
    /\ Len(commitMark.markC) = 0

\* Begin while no other transaction is open
SerialBegin(t, update) ==
    /\ Quiescent
    /\ \A u \in Txns : txn[u].pc \in {"idle", "closed", "returned"}
    /\ BeginWith(t, update, MaxSerialBegin)

SerialNext ==
    \/ ReadMarkProcess
    \/ CommitMarkProcess
    \/ \E t \in Txns, update \in BOOLEAN : SerialBegin(t, update)
    \/ \E t \in Txns : WaitForMarkDone(t)
    \/ \E t \in Txns, k \in UserKeys : GetOwn(t, k)
    \/ \E t \in Txns, k \in UserKeys : Get(t, k)
    \/ \E t \in Txns, k \in UserKeys, v \in UserValues : Set(t, k, v)
    \/ \E t \in Txns, k \in UserKeys : Delete(t, k)
    \/ \E t \in Txns : Discard(t)
    \/ \E t \in Txns : CommitEmpty(t)
    \/ \E t \in Txns : CommitStart(t)
    \/ \E t \in Txns : CommitWrite(t)
    \/ \E t \in Txns : CommitSend(t)
    \/ \E t \in Txns : CommitPush(t)
    \/ \E t \in Txns : CommitDone(t)
    \/ WorkerReceive
    \/ WorkerFlush
    \/ WorkerWalDelete
    \/ WorkerCompact
    \/ WorkerRemove

SerialSpec == Init /\ [][SerialNext]_vars

(***************************************************************************)
(* Process termination without Close, and the reopen of the directory      *)
(***************************************************************************)
Running == worker.pc \notin {"crashed", "recovered"}

\* the process ends without Close: its memory is gone, the directory (WAL
\* files and table files) stays
Crash ==
    /\ Running
    /\ panicked' = TRUE
    /\ nextTs' = 1
    /\ lastCleanUpTs' = 0
    /\ committedTxns' = <<>>
    /\ writeLock' = FALSE
    /\ readMark' = NewWaterMark
    /\ commitMark' = NewWaterMark
    /\ txn' = [t \in Txns |-> ClosedTxn]
    /\ memtable' = mkMemtable(memtable.wal)
    /\ immutables' = <<>>
    /\ flushC' = <<>>
    /\ lm' = [levels |-> <<>>, files |-> lm.files]
    /\ worker' = [pc |-> "crashed", imt |-> mkMemtable(0)]
    /\ UNCHANGED <<walFiles, walSeq, commitLog, begun, markLog, call>>

\* the WAL versions of the directory in file-name order
RECURSIVE SortedVersions(_)
SortedVersions(S) ==
    IF S = {} THEN <<>>
    ELSE LET v == CHOOSE v \in S : \A u \in S : v <= u
         IN <<v>> \o SortedVersions(S \ {v})

\* memtable.recover, the entries of one WAL file from the i-th on:
\* skiplist.Set, then wal.Write to the new WAL
RECURSIVE ReplayFrom(_, _, _, _)
ReplayFrom(entries, i, st, level) ==
    IF i > Len(entries) THEN st
    ELSE LET r == SkipListSet(st.sl, entries[i], level) IN
         IF r.panic THEN [st EXCEPT !.panic = TRUE]
         ELSE ReplayFrom(entries, i + 1,
                         [st EXCEPT !.sl = r.sl, !.written = Append(@, entries[i])], level)

\* memtable.recover, the WAL files from the i-th on: replay, then Delete
RECURSIVE memtableRecover(_, _, _, _)
memtableRecover(versions, i, st, level) ==
    IF i > Len(versions) THEN st
    ELSE LET r == ReplayFrom(st.files[versions[i]], 1, st, level) IN
         IF r.panic THEN r
         ELSE memtableRecover(versions, i + 1,
                              [r EXCEPT !.files = [v \in DOMAIN r.files \ {versions[i]} |->
                                                      r.files[v]]], level)

\* levelManager.recover: the handles of the table files in file-name order
TableFileIdxs(files, level) == {n[2] : n \in {m \in DOMAIN files : m[1] = level}}

\* fmt.Sprintf("%d-%d.db", level, idx)
fileNameStr(level, idx) == FormatUint(level) \o <<45>> \o FormatUint(idx) \o <<46, 100, 98>>

\* slices.Sort(dbFiles): the ordinals of a level in the plain string order of
\* the file names
RECURSIVE SortedByFileName(_, _)
SortedByFileName(level, S) ==
    IF S = {} THEN <<>>
    ELSE LET v == CHOOSE v \in S : \A u \in S :
                      StrCompare(fileNameStr(level, v), fileNameStr(level, u)) <= 0
         IN <<v>> \o SortedByFileName(level, S \ {v})

lmRecover(files) ==
    IF DOMAIN files = {} THEN <<>>
    ELSE [l \in 1..(SetMax({n[1] : n \in DOMAIN files}) + 1) |->
            LET idxs == SortedByFileName(l - 1, TableFileIdxs(files, l - 1)) IN
            [j \in 1..Len(idxs) |-> tableHandle(idxs[j], fetchAll(files, l - 1, idxs[j]))]]

lmRecoverPanics(files, nanNegative) ==
    \E n \in DOMAIN files : FilterBuildPanics(fetchAll(files, n[1], n[2]), nanNegative)

\* the greatest version among entries, 0 without entries
MaxVersionOf(S) == SetMax({0} \cup {e.Version : e \in S})

\* Open on the directory the ended process left
Open ==
    /\ worker.pc = "crashed"
    /\ \E level \in 1..SkipListMaxLevel, nanNegative \in BOOLEAN :
       \E mt \in {memtableRecover(SortedVersions(DOMAIN walFiles), 1,
                                  [panic |-> FALSE, sl |-> EmptySkipList,
                                   written |-> <<>>, files |-> walFiles], level)} :
       \E levels \in {lmRecover(lm.files)} :
       \E maxTs \in {Max2(MaxVersionOf(Range(mt.written)),
                          MaxVersionOf(AllEntries([levels |-> levels, files |-> lm.files])))} :
         /\ walFiles' = [v \in DOMAIN mt.files \cup {walSeq + 1} |->
                            IF v = walSeq + 1 THEN mt.written ELSE mt.files[v]]
         /\ walSeq' = walSeq + 1
         /\ memtable' = [skiplist |-> mt.sl, wal |-> walSeq + 1]
         /\ IF mt.panic \/ lmRecoverPanics(lm.files, nanNegative)
            THEN /\ panicked' = TRUE
                 /\ UNCHANGED <<lm, readMark, commitMark, nextTs>>
            ELSE /\ panicked' = FALSE
                 /\ lm' = [levels |-> levels, files |-> lm.files]
                 /\ readMark' = WaterMarkDone(NewWaterMark, maxTs)
                 /\ commitMark' = WaterMarkDone(NewWaterMark, maxTs)
                 /\ nextTs' = maxTs + 1
    /\ worker' = [pc |-> "recovered", imt |-> mkMemtable(0)]
    /\ UNCHANGED <<lastCleanUpTs, committedTxns, writeLock, txn, immutables, flushC,
                   commitLog, begun, markLog, call>>

\* the actions of the running process; the model ends at the reopen
CrashNext ==
    \/ Running /\ ReadMarkProcess
    \/ Running /\ CommitMarkProcess
    \/ Running /\ \E t \in Txns, update \in BOOLEAN : Begin(t, update)
    \/ Running /\ \E t \in Txns : WaitForMarkDone(t)
    \/ Running /\ \E t \in Txns : WaitForMarkSend(t)
    \/ Running /\ \E t \in Txns, k \in UserKeys : GetOwn(t, k)
    \/ Running /\ \E t \in Txns, k \in UserKeys : Get(t, k)
    \/ Running /\ \E t \in Txns, k \in UserKeys, v \in UserValues : Set(t, k, v)
    \/ Running /\ \E t \in Txns, k \in UserKeys : Delete(t, k)
    \/ Running /\ \E t \in Txns : Discard(t)
    \/ Running /\ \E t \in Txns : CommitEmpty(t)
    \/ Running /\ \E t \in Txns : CommitConflict(t)
    \/ Running /\ \E t \in Txns : CommitStart(t)
    \/ Running /\ \E t \in Txns : CommitWrite(t)
    \/ Running /\ \E t \in Txns : CommitSend(t)
    \/ Running /\ \E t \in Txns : CommitPush(t)
    \/ Running /\ \E t \in Txns : CommitDone(t)
    \/ Running /\ WorkerReceive
    \/ Running /\ WorkerFlush
    \/ Running /\ WorkerWalDelete
    \/ Running /\ WorkerCompact
    \/ Running /\ WorkerRemove
    \/ Crash
    \/ Open

CrashSpec == Init /\ [][CrashNext]_vars

\* the entries of a WAL in replay order, the latest write per key winning
LatestPerKey(entries) ==
    {entries[i] : i \in {j \in 1..Len(entries) :
                            \A h \in (j + 1)..Len(entries) : entries[h].Key # entries[j].Key}}

\* the entry that commit i wrote for user key k is in the memtable or a table
Recovered(i, k) ==
    \E e \in Range(SkipListAll(memtable.skiplist)) \cup AllEntries(lm) :
        /\ e.Key = commitLog[i].writes[k].Key
        /\ e.Value = commitLog[i].writes[k].Value
        /\ e.Tombstone = commitLog[i].writes[k].Tombstone
        /\ e.Version = commitLog[i].ts

\* C10: after the process ended without Close at any point, the reopen
\* succeeds and recovers every entry of every transaction whose Commit had
\* returned, and the recovered memtable's all() is the comparator-ordered
\* union of the replayed WAL entries, the latest write per key winning.
C10_ReopenRecoversCommitted ==
    worker.pc = "recovered" =>
        /\ ~panicked
        /\ \A i \in 1..Len(commitLog) :
               commitLog[i].returned => \A k \in DOMAIN commitLog[i].writes : Recovered(i, k)
        /\ SkipListAll(memtable.skiplist)
               = SortByCompareKeys(LatestPerKey(walFiles[memtable.wal]))

(***************************************************************************)
(* checkAndCompact step by step: the file removals and the write of the    *)
(* new table are separate steps, and the process may end between them      *)
(***************************************************************************)
\* the entries held by the table files of the directory
FileEntries(files) == UNION {Range(fetchAll(files, n[1], n[2])) : n \in DOMAIN files}

\* checkAndCompact: the loop over the levels that exist on entry
CompactEnter ==
    /\ ~panicked
    /\ worker.pc = "checkAndCompact"
    /\ worker' = [pc |-> "level", imt |-> worker.imt, i |-> 0, n |-> Len(lm.levels),
                  name |-> <<>>, bytes |-> <<>>]
    /\ UNCHANGED <<panicked, oracleVars, readMark, commitMark, txn, memtable, immutables,
                   flushC, walFiles, walSeq, lm, commitLog, begun, markLog, call>>

OverTarget(m, i) == Len(m.levels[i + 1]) > L0TargetNum * Pow(LevelRatio, i)

\* a level within its target size: next level
CompactSkip ==
    /\ ~panicked
    /\ worker.pc = "level"
    /\ worker.i < worker.n
    /\ ~OverTarget(lm, worker.i)
    /\ worker' = [worker EXCEPT !.i = @ + 1]
    /\ UNCHANGED <<panicked, oracleVars, readMark, commitMark, txn, memtable, immutables,
                   flushC, walFiles, walSeq, lm, commitLog, begun, markLog, call>>

\* compactL0 / compactLN up to the last os.Remove: the new handle is in the
\* list, the old handles and the old files are gone, the new file is not
\* written yet
CompactRemoveInputs ==
    /\ ~panicked
    /\ worker.pc = "level"
    /\ worker.i < worker.n
    /\ OverTarget(lm, worker.i)
    /\ \E nanNegative \in BOOLEAN :
       \E r \in {IF worker.i = 0 THEN compactL0(lm, readMark.doneUntil, nanNegative)
                 ELSE compactLN(lm, worker.i, readMark.doneUntil, nanNegative)} :
         IF r.panic
         THEN /\ panicked' = TRUE
              /\ UNCHANGED <<lm, worker>>
         ELSE \E new \in DOMAIN r.lm.files \ DOMAIN lm.files :
              /\ panicked' = FALSE
              /\ lm' = [levels |-> r.lm.levels,
                        files |-> RemoveFiles(lm.files, DOMAIN lm.files \ DOMAIN r.lm.files)]
              /\ worker' = [worker EXCEPT !.pc = "write", !.name = new,
                                          !.bytes = r.lm.files[new]]
    /\ UNCHANGED <<oracleVars, readMark, commitMark, txn, memtable, immutables,
                   flushC, walFiles, walSeq, commitLog, begun, markLog, call>>

\* compactL0 / compactLN: os.OpenFile and fd.Write of the new table
CompactWriteOutput ==
    /\ ~panicked
    /\ worker.pc = "write"
    /\ lm' = [lm EXCEPT !.files = WriteFile(lm.files, worker.name, worker.bytes)]
    /\ worker' = [worker EXCEPT !.pc = "level", !.i = @ + 1]
    /\ UNCHANGED <<panicked, oracleVars, readMark, commitMark, txn, memtable, immutables,
                   flushC, walFiles, walSeq, commitLog, begun, markLog, call>>

\* checkAndCompact returns
CompactLeave ==
    /\ ~panicked
    /\ worker.pc = "level"
    /\ worker.i >= worker.n
    /\ worker' = [pc |-> "select", imt |-> worker.imt]
    /\ UNCHANGED <<panicked, oracleVars, readMark, commitMark, txn, memtable, immutables,
                   flushC, walFiles, walSeq, lm, commitLog, begun, markLog, call>>

CompactCrashNext ==
    \/ \E ws \in LevelWrites : LevelFlush(ws)
    \/ CompactEnter
    \/ CompactSkip
    \/ CompactRemoveInputs
    \/ CompactWriteOutput
    \/ CompactLeave
    \/ Crash
    \/ Open

CompactCrashSpec == Init /\ [][CompactCrashNext]_vars

\* C11: at every step of a compaction each entry held by a table file stays
\* held by some table file (the output is written before an input is
\* removed), and the level manager that a reopen rebuilds from the file names
\* holds every entry that was flushed.
C11_CompactionKeepsEntriesOnDisk ==
    [][/\ worker.pc \in {"level", "write"} =>
              FileEntries(lm.files) \subseteq FileEntries(lm'.files)
       /\ (worker.pc = "crashed" /\ worker'.pc = "recovered") =>
              /\ ~panicked'
              /\ \A i \in 1..Len(commitLog) : \A k \in DOMAIN commitLog[i].writes :
                     commitLog[i].writes[k] \in AllEntries(lm')]_vars

(***************************************************************************)
(* The reopened database: the watermark coordinators run and the first     *)
(* transaction begins                                                      *)
(***************************************************************************)
Reopened == worker.pc = "recovered" /\ ~panicked

\* the first Begin on the reopened database
ReopenBegin(t, update) ==
    /\ Reopened
    /\ \A u \in Txns : txn[u].pc = "closed"
    /\ BeginWith(t, update, begun + 1)

\* commitMark.WaitForMark(readTs) of that Begin
ReopenWaitForMark(t) ==
    /\ Reopened
    /\ IF MarkReached(commitMark, txn[t].readTs) THEN WaitForMarkDone(t) ELSE WaitForMarkSend(t)

ReopenNext ==
    \/ CrashNext
    \/ Reopened /\ ReadMarkProcess
    \/ Reopened /\ CommitMarkProcess
    \/ \E t \in Txns, update \in BOOLEAN : ReopenBegin(t, update)
    \/ \E t \in Txns : ReopenWaitForMark(t)

\* the coordinators are goroutines of their own and a caller of Begin keeps
\* running: each takes its step when it can
ReopenSpec ==
    /\ Init /\ [][ReopenNext]_vars
    /\ WF_vars(Reopened /\ ReadMarkProcess)
    /\ WF_vars(Reopened /\ CommitMarkProcess)
    /\ WF_vars(\E t \in Txns : ReopenWaitForMark(t))

\* the entries of the WAL files of the directory
WalEntries == UNION {Range(walFiles[v]) : v \in DOMAIN walFiles}

\* C12: after Open has recovered a directory, next_ts is greater than the
\* version of every entry in a WAL file or a table file, both watermarks
\* stand at next_ts - 1 once their channel is drained, and the Begin that
\* waits on commit_mark returns.
C12_ReopenRestoresOracle ==
    /\ [](Reopened => \A e \in WalEntries \cup FileEntries(lm.files) : nextTs > e.Version)
    /\ []((Reopened /\ Len(readMark.markC) = 0) => readMark.doneUntil = nextTs - 1)
    /\ []((Reopened /\ Len(commitMark.markC) = 0) => commitMark.doneUntil = nextTs - 1)
    /\ \A t \in Txns : (Reopened /\ txn[t].pc = "waitForMark") ~> (txn[t].pc = "active")

C12_Witness ==
    /\ Reopened
    /\ \E e \in WalEntries : e.Version >= 1
    /\ \E e \in FileEntries(lm.files) : e.Version >= 1
    /\ \E t \in Txns : txn[t].pc = "active" /\ txn[t].readTs = nextTs - 1

(***************************************************************************)
(* A watermark on its own (watermark_test.go): callers send Begin and Done *)
(* marks of any timestamps, callers wait for marks with contexts that may  *)
(* expire, and a reader of DoneUntil cleans up as the oracle does          *)
(***************************************************************************)
MarkTs == 1..MaxMarkTs

\* the Begin and Done marks sent so far: processed or still in the channel
MarksSent(w) ==
    LET RECURSIVE Sum(_)
        Sum(S) == IF S = {} THEN 0
                  ELSE LET t == CHOOSE t \in S : TRUE
                       IN markLog.begins[t] + markLog.dones[t] + Sum(S \ {t})
    IN Sum(0..MaxMarkTs) + Cardinality({i \in 1..Len(w.markC) : w.markC[i].waiter = NoWaiter})

WaterMarkInit ==
    /\ panicked = FALSE
    /\ nextTs = 1
    /\ lastCleanUpTs = 0
    /\ committedTxns = <<>>
    /\ writeLock = FALSE
    /\ readMark = NewWaterMark
    /\ commitMark = NewWaterMark
    /\ txn = [t \in Txns |-> NewTxn]
    /\ memtable = mkMemtable(1)
    /\ immutables = <<>>
    /\ flushC = <<>>
    /\ walFiles = [v \in {1} |-> <<>>]
    /\ walSeq = 1
    /\ lm = [levels |-> <<>>, files |-> NoFiles]
    /\ worker = [pc |-> "select", imt |-> mkMemtable(0)]
    /\ commitLog = <<>>
    /\ begun = 0
    /\ markLog = NoMarkLog
    /\ call = NoCall

\* w.Begin(ts)
MarkBegin(ts) ==
    /\ ~panicked
    /\ MarksSent(readMark) < MaxMarks
    /\ CanSend(readMark)
    /\ readMark' = WaterMarkBegin(readMark, ts)
    /\ UNCHANGED <<panicked, oracleVars, commitMark, txn, storeVars, commitLog, begun, markLog, call>>

\* w.Done(ts)
MarkDone(ts) ==
    /\ ~panicked
    /\ MarksSent(readMark) < MaxMarks
    /\ CanSend(readMark)
    /\ readMark' = WaterMarkDone(readMark, ts)
    /\ UNCHANGED <<panicked, oracleVars, commitMark, txn, storeVars, commitLog, begun, markLog, call>>

\* the history after a Begin or Done mark m is processed by w
LogMark(log, w, m) ==
    IF m.waiter # NoWaiter THEN log
    ELSE [begins |-> [log.begins EXCEPT ![m.ts] = IF m.done THEN @ ELSE @ + 1],
          dones |-> [log.dones EXCEPT ![m.ts] = IF m.done THEN @ + 1 ELSE @],
          early |-> log.early \/ (~m.done /\ m.ts <= w.doneUntil),
          unmatched |-> log.unmatched \/ (m.done /\ log.dones[m.ts] >= log.begins[m.ts])]

\* one iteration of process; a closed waiter channel is seen by its caller
MarkProcess ==
    /\ ~panicked
    /\ Len(readMark.markC) > 0
    /\ \E r \in {ProcessOne(readMark)} :
         /\ readMark' = r.w
         /\ txn' = [t \in Txns |-> IF t \in r.woken /\ txn[t].pc = "parked"
                                   THEN [txn[t] EXCEPT !.pc = "woken"] ELSE txn[t]]
    /\ markLog' = LogMark(markLog, readMark, Head(readMark.markC))
    /\ UNCHANGED <<panicked, oracleVars, commitMark, storeVars, commitLog, begun, call>>

\* w.WaitForMark(ctx, ts): the test of DoneUntil
WaitCall(t, ts) ==
    /\ ~panicked
    /\ txn[t].pc = "idle"
    /\ txn' = [txn EXCEPT ![t] =
                  IF MarkReached(readMark, ts)
                  THEN [NewTxn EXCEPT !.pc = "returned", !.readTs = ts, !.result = "nil"]
                  ELSE [NewTxn EXCEPT !.pc = "waitForMark", !.readTs = ts]]
    /\ UNCHANGED <<panicked, oracleVars, readMark, commitMark, storeVars, commitLog, begun,
                   markLog, call>>

\* w.WaitForMark: the waiter is sent on markC
WaitSend(t) ==
    /\ ~panicked
    /\ txn[t].pc = "waitForMark"
    /\ CanSend(readMark)
    /\ readMark' = [readMark EXCEPT !.markC = Append(@, mark(txn[t].readTs, FALSE, t))]
    /\ txn' = [txn EXCEPT ![t].pc = "parked"]
    /\ UNCHANGED <<panicked, oracleVars, commitMark, storeVars, commitLog, begun, markLog, call>>

\* w.WaitForMark: case <-waiter
WaitReturn(t) ==
    /\ ~panicked
    /\ txn[t].pc = "woken"
    /\ txn' = [txn EXCEPT ![t].pc = "returned", ![t].result = "nil"]
    /\ UNCHANGED <<panicked, oracleVars, readMark, commitMark, storeVars, commitLog, begun,
                   markLog, call>>

\* w.WaitForMark: case <-ctx.Done(), the context has expired; with the waiter
\* closed as well the select takes either case
WaitDeadline(t) ==
    /\ ~panicked
    /\ txn[t].pc \in {"parked", "woken"}
    /\ txn' = [txn EXCEPT ![t].pc = "returned", ![t].result = "DeadlineExceeded"]
    /\ UNCHANGED <<panicked, oracleVars, readMark, commitMark, storeVars, commitLog, begun,
                   markLog, call>>

\* oracle.cleanUpCommittedTxns on this watermark's DoneUntil
MarkCleanUp ==
    /\ ~panicked
    /\ readMark.doneUntil # lastCleanUpTs
    /\ panicked' = cleanUpPanics(readMark.doneUntil)
    /\ lastCleanUpTs' = IF cleanUpPanics(readMark.doneUntil) THEN lastCleanUpTs
                        ELSE readMark.doneUntil
    /\ committedTxns' = cleanUpCommittedTxns(readMark.doneUntil)
    /\ UNCHANGED <<nextTs, writeLock, readMark, commitMark, txn, storeVars, commitLog, begun,
                   markLog, call>>

WaterMarkNext ==
    \/ \E ts \in MarkTs : MarkBegin(ts)
    \/ \E ts \in MarkTs : MarkDone(ts)
    \/ MarkProcess
    \/ \E t \in Txns, ts \in MarkTs : WaitCall(t, ts)
    \/ \E t \in Txns : WaitSend(t)
    \/ \E t \in Txns : WaitReturn(t)
    \/ \E t \in Txns : WaitDeadline(t)
    \/ MarkCleanUp

\* process is a goroutine of its own and the callers keep running
WaterMarkSpec ==
    /\ WaterMarkInit /\ [][WaterMarkNext]_vars
    /\ WF_vars(MarkProcess)
    /\ \A t \in Txns : WF_vars(WaitSend(t)) /\ WF_vars(WaitReturn(t) \/ WaitDeadline(t))

(***************************************************************************)
(* Properties of the watermark                                             *)
(***************************************************************************)
Begun(t) == markLog.begins[t] > 0

\* as many Done marks as Begin marks of t have been processed
Balanced(t) == markLog.dones[t] = markLog.begins[t]

\* the largest begun D such that every begun t <= D is balanced, 0 without one
LargestBalanced ==
    SetMax({0} \cup {D \in MarkTs : Begun(D) /\ \A t \in 1..D : Begun(t) => Balanced(t)})

\* C13 (as stated): after any sequence of Begin and Done marks has been
\* processed, done_until is the largest D such that every begun t <= D has
\* been done as many times as begun.
C13_DoneUntilIsLargestBalanced == readMark.doneUntil = LargestBalanced

\* C13 (amended): the same for sequences in which every Begin(t) is processed
\* while done_until < t and no Done(t) is processed beyond the Begins of t.
C13_DoneUntilIsLargestBalancedInOrder ==
    (~markLog.early /\ ~markLog.unmatched) => readMark.doneUntil = LargestBalanced

C13_Witness ==
    /\ ~markLog.early /\ ~markLog.unmatched
    /\ markLog.begins[1] >= 1 /\ markLog.begins[2] >= 1
    /\ readMark.doneUntil = 2

\* the Done marks of t and of every smaller begun timestamp have caught up
\* with the Begin marks
CompleteUpTo(t) == \A s \in 1..t : Begun(s) => markLog.dones[s] >= markLog.begins[s]

\* C14 (as stated): with Begin(t) processed n times, done_until is below t
\* until Done(t) has been processed n times and every smaller begun timestamp
\* is complete.
C14_DoneUntilWaitsForAllDones ==
    \A t \in MarkTs : (Begun(t) /\ readMark.doneUntil >= t) => CompleteUpTo(t)

\* C14 (amended): the same when every Begin is processed while done_until is
\* below its timestamp; done_until is then at or above t exactly when Done(t)
\* has been processed n times and every smaller begun timestamp is complete.
C14_DoneUntilWaitsForAllDonesInOrder ==
    ~markLog.early =>
        \A t \in MarkTs : Begun(t) => (readMark.doneUntil >= t <=> CompleteUpTo(t))

C14_Witness ==
    /\ ~markLog.early
    /\ markLog.begins[2] = 2 /\ markLog.dones[2] = 2
    /\ readMark.doneUntil = 2

\* C15: done_until never decreases, whatever marks are processed, and no
\* cleanUpCommittedTxns finds it below the value the previous one saw.
C15_DoneUntilNeverDecreases ==
    [][readMark'.doneUntil >= readMark.doneUntil /\ ~panicked']_vars

C15_Witness ==
    /\ markLog.early /\ markLog.unmatched
    /\ lastCleanUpTs = 1
    /\ readMark.doneUntil = 2

C17_ExpiredWaitLeavesWatermark ==
    [][/\ \A t \in Txns :
              (txn[t].pc = "parked" /\ txn'[t].pc = "returned")
                  => /\ txn'[t].result = "DeadlineExceeded"
                     /\ readMark' = readMark /\ markLog' = markLog
                     /\ \A u \in Txns \ {t} : txn'[u] = txn[u]
       /\ \A t \in Txns : txn[t].pc = "returned" => txn'[t] = txn[t]
       /\ (Len(readMark.markC) > 0 /\ Len(readMark'.markC) < Len(readMark.markC)
           /\ Head(readMark.markC).waiter # NoWaiter)
              => /\ readMark'.doneUntil = readMark.doneUntil
                 /\ readMark'.pending = readMark.pending
                 /\ markLog' = markLog]_vars

C17_Witness ==
    \E t \in Txns, u \in Txns :
        /\ txn[t].pc = "returned" /\ txn[t].result = "DeadlineExceeded"
        /\ txn[t].readTs = 1 /\ readMark.doneUntil = 2
        /\ \A x \in readMark.waiters : x.waiter # t
        /\ txn[u].pc = "returned" /\ txn[u].result = "nil" /\ txn[u].readTs = 2

(***************************************************************************)
(* Callers that keep a Txn after one of its calls has ended it: Commit,    *)
(* Discard, Set, Delete and SetEntry on a transaction whose Commit has     *)
(* returned or which has been discarded.  View is Begin(false), the calls  *)
(* of fn and Discard; Update is Begin(true), the calls of fn, Commit when  *)
(* fn returns nil, and Discard.                                            *)
(***************************************************************************)
\* the key "" of ErrEmptyKey
EmptyKey == <<>>

\* the entries handed to modify by Set (Key, Value) and Delete (Key, empty
\* Value, Tombstone)
ModifyEntries ==
    {MkEntry(k, v, FALSE, 0) : k \in UserKeys \cup {EmptyKey}, v \in UserValues}
        \cup {MkEntry(k, <<>>, TRUE, 0) : k \in UserKeys \cup {EmptyKey}}

\* a modify that records the write before it looks at the key
TxnModifyKeyLast(tx, e) ==
    IF tx.readOnly THEN [err |-> "ErrReadOnlyTxn", tx |-> tx]
    ELSE IF tx.discarded THEN [err |-> "ErrDiscardedTxn", tx |-> tx]
    ELSE [err |-> IF e.Key = EmptyKey THEN "ErrEmptyKey" ELSE "nil",
          tx |-> [tx EXCEPT !.writesFp = @ \cup {Hash(e.Key)},
                            !.pendingWrites =
                                [k \in DOMAIN @ \cup {e.Key} |-> IF k = e.Key THEN e ELSE @[k]]]]

\* Txn.modify on the transaction as it is: the error returned and the
\* transaction after the call
TxnModify(tx, e) ==
    IF tx.readOnly THEN [err |-> "ErrReadOnlyTxn", tx |-> tx]
    ELSE IF tx.discarded THEN [err |-> "ErrDiscardedTxn", tx |-> tx]
    ELSE IF e.Key = EmptyKey THEN [err |-> "ErrEmptyKey", tx |-> tx]
    ELSE [err |-> "nil",
          tx |-> [tx EXCEPT !.writesFp = @ \cup {Hash(e.Key)},
                            !.pendingWrites =
                                [k \in DOMAIN @ \cup {e.Key} |-> IF k = e.Key THEN e ELSE @[k]]]]

\* the callers of a Txn that has been handed out, whatever has ended it
Held(t) == ~panicked /\ txn[t].pc \in {"active", "returned", "closed"} /\ txn[t].ops < MaxOps

\* Txn.Set, Txn.Delete, Txn.SetEntry
TxnSetEntry(t, e) ==
    /\ Held(t)
    /\ \E r \in {TxnModify(txn[t], e)} :
         txn' = [txn EXCEPT ![t] = [r.tx EXCEPT !.ops = @ + 1, !.result = r.err]]
    /\ UNCHANGED <<panicked, oracleVars, readMark, commitMark, storeVars, commitLog, begun,
                   markLog, call>>

\* Txn.Discard, the first one: doneRead, and the flag; the other fields stay
TxnDiscard(t) ==
    /\ ~panicked
    /\ txn[t].pc \in {"active", "returned"}
    /\ ~txn[t].discarded
    /\ CanSend(readMark)
    /\ readMark' = doneRead(readMark, txn[t])
    /\ txn' = [txn EXCEPT ![t].pc = "closed", ![t].discarded = TRUE, ![t].doneRead = TRUE,
                          ![t].result = "none"]
    /\ UNCHANGED <<panicked, oracleVars, commitMark, storeVars, commitLog, begun, markLog, call>>

\* Txn.Discard on a discarded transaction returns at once
DiscardAgain(t) ==
    /\ Held(t)
    /\ txn[t].discarded
    /\ txn' = [txn EXCEPT ![t].pc = "closed", ![t].ops = @ + 1, ![t].result = "none"]
    /\ UNCHANGED <<panicked, oracleVars, readMark, commitMark, storeVars, commitLog, begun,
                   markLog, call>>

\* Txn.Commit on a discarded transaction: the pre-check
CommitDiscarded(t) ==
    /\ Held(t)
    /\ txn[t].discarded
    /\ txn' = [txn EXCEPT ![t].ops = @ + 1, ![t].result = "ErrDiscardedTxn"]
    /\ UNCHANGED <<panicked, oracleVars, readMark, commitMark, storeVars, commitLog, begun,
                   markLog, call>>

\* Txn.Commit and Txn.Get on a transaction whose Commit has returned nil or
\* ErrConflictTxn: neither path sets the discarded flag, and the call goes
\* on as on an open transaction
CallAfterCommit(t) ==
    /\ Held(t)
    /\ txn[t].pc = "returned" /\ ~txn[t].discarded
    /\ txn' = [txn EXCEPT ![t].pc = "active", ![t].ops = @ + 1]
    /\ UNCHANGED <<panicked, oracleVars, readMark, commitMark, storeVars, commitLog, begun,
                   markLog, call>>

TxnCallNext ==
    \/ ReadMarkProcess
    \/ CommitMarkProcess
    \/ \E t \in Txns, update \in BOOLEAN : Begin(t, update)
    \/ \E t \in Txns : WaitForMarkDone(t)
    \/ \E t \in Txns : WaitForMarkSend(t)
    \/ \E t \in Txns, k \in UserKeys : GetOwn(t, k)
    \/ \E t \in Txns, k \in UserKeys : Get(t, k)
    \/ \E t \in Txns, e \in ModifyEntries : TxnSetEntry(t, e)
    \/ \E t \in Txns : TxnDiscard(t)
    \/ \E t \in Txns : DiscardAgain(t)
    \/ \E t \in Txns : CommitDiscarded(t)
    \/ \E t \in Txns : CallAfterCommit(t)
    \/ \E t \in Txns : CommitEmpty(t)
    \/ \E t \in Txns : CommitConflict(t)
    \/ \E t \in Txns : CommitStart(t)
    \/ \E t \in Txns : CommitWrite(t)
    \/ \E t \in Txns : CommitSend(t)
    \/ \E t \in Txns : CommitPush(t)
    \/ \E t \in Txns : CommitDone(t)
    \/ WorkerReceive
    \/ WorkerFlush
    \/ WorkerWalDelete
    \/ WorkerCompact
    \/ WorkerRemove

TxnCallSpec == Init /\ [][TxnCallNext]_vars

\* C18: a transaction ends once: no transaction obtains a second commit
\* timestamp (and so writes its entries a second time) after its Commit has
\* succeeded, and Commit on a discarded transaction returns ErrDiscardedTxn
\* and leaves the oracle, the watermarks and the store as they are.
C18_TxnEndsOnce ==
    /\ [](\A i \in 1..Len(commitLog), j \in 1..Len(commitLog) :
              commitLog[i].id = commitLog[j].id => i = j)
    /\ [][\A t \in Txns :
              (txn[t].discarded /\ txn'[t].result = "ErrDiscardedTxn"
               /\ txn'[t].ops # txn[t].ops /\ txn'[t].pc = txn[t].pc)
                  => /\ commitLog' = commitLog
                     /\ UNCHANGED <<oracleVars, readMark, commitMark, storeVars>>
                     /\ txn'[t].pendingWrites = txn[t].pendingWrites]_vars

\* C19: every transaction that has been discarded (View, Update, or any
\* calls of Commit and Discard with a Discard among them) has sent its one
\* Done(read_ts) on read_mark: a step sends Begin(read_ts) exactly when a
\* transaction is begun and Done(read_ts) exactly when a transaction's
\* done_read flag is raised, the flag never falls, and a repeated Discard or
\* a Discard after a successful Commit sends nothing.
C19_OneDonePerBegin ==
    /\ [](\A t \in Txns : txn[t].discarded => txn[t].doneRead)
    /\ [][LET sent == IF Len(readMark'.markC) > Len(readMark.markC)
                      THEN {readMark'.markC[Len(readMark'.markC)]} ELSE {}
              started == {t \in Txns : txn'[t].id # txn[t].id}
              finished == {t \in Txns : /\ txn'[t].id = txn[t].id
                                        /\ ~txn[t].doneRead /\ txn'[t].doneRead}
          IN /\ \A t \in Txns : (txn'[t].id = txn[t].id /\ txn[t].doneRead) => txn'[t].doneRead
             /\ Cardinality(started) + Cardinality(finished) = Cardinality(sent)
             /\ \A t \in started : sent = {mark(txn'[t].readTs, FALSE, NoWaiter)}
             /\ \A t \in finished : sent = {mark(txn[t].readTs, TRUE, NoWaiter)}]_vars

\* a transaction that has committed and has then been discarded, with every
\* mark of read_mark processed
C19_Witness ==
    \E t \in Txns :
        /\ txn[t].pc = "closed" /\ txn[t].discarded /\ txn[t].commitTs > 0
        /\ txn[t].ops = MaxOps
        /\ Len(readMark.markC) = 0 /\ readMark.doneUntil >= txn[t].readTs

\* C20: Set, Delete and SetEntry return ErrReadOnlyTxn on a read-only
\* transaction, ErrDiscardedTxn on a discarded one and ErrEmptyKey for an
\* empty key (where several of the three hold, the error of one of them),
\* and the rejected call leaves pending_writes and writes_fp as they were.
C20_RejectedWriteChangesNothing ==
    [][\A t \in Txns, e \in ModifyEntries :
           TxnSetEntry(t, e) =>
               LET errs == {x \in {"ErrReadOnlyTxn", "ErrDiscardedTxn", "ErrEmptyKey"} :
                               \/ x = "ErrReadOnlyTxn" /\ txn[t].readOnly
                               \/ x = "ErrDiscardedTxn" /\ txn[t].discarded
                               \/ x = "ErrEmptyKey" /\ e.Key = EmptyKey}
               IN IF errs = {}
                  THEN /\ txn'[t].result = "nil"
                       /\ e.Key \in DOMAIN txn'[t].pendingWrites
                  ELSE /\ txn'[t].result \in errs
                       /\ txn'[t].pendingWrites = txn[t].pendingWrites
                       /\ txn'[t].writesFp = txn[t].writesFp
                       /\ txn'[t].readsFp = txn[t].readsFp
                       /\ txn'[t].discarded = txn[t].discarded
                       /\ txn'[t].doneRead = txn[t].doneRead]_vars

\* a writer that holds a pending write and has had an empty key rejected,
\* beside a read-only transaction that has had a write rejected
C20_Witness ==
    \E t \in Txns, u \in Txns :
        /\ txn[t].pc = "active" /\ txn[t].result = "ErrEmptyKey"
        /\ DOMAIN txn[t].pendingWrites = UserKeys
        /\ txn[u].readOnly /\ txn[u].result = "ErrReadOnlyTxn"

\* the entries of the store: memtable, immutables, WAL files and tables
StoredEntries ==
    Range(SkipListAll(memtable.skiplist))
        \cup UNION {Range(SkipListAll(immutables[i].skiplist)) : i \in 1..Len(immutables)}
        \cup WalEntries \cup AllEntries(lm)

\* e is a write of a transaction that obtained a commit timestamp
Committed(e) ==
    \E i \in 1..Len(commitLog) :
        /\ commitLog[i].ts = e.Version
        /\ e.Key \in DOMAIN commitLog[i].writes
        /\ commitLog[i].writes[e.Key].Value = e.Value
        /\ commitLog[i].writes[e.Key].Tombstone = e.Tombstone

\* C21: a Discard and a Commit that returns ErrConflictTxn leave next_ts,
\* committed_txns, the memtable and the rest of the store as they were; a
\* transaction that obtained no commit timestamp is in no commit record, every
\* timestamp handed out belongs to a commit record, and every stored entry
\* and every value a Get has read from the store is a write of a transaction
\* that obtained a commit timestamp.
C21_DiscardedTxnLeavesNoTrace ==
    /\ [][\A t \in Txns :
              (\/ ~txn[t].discarded /\ txn'[t].discarded
               \/ /\ txn[t].pc = "active" /\ txn'[t].pc = "returned"
                  /\ txn'[t].result = "ErrConflictTxn")
                  => UNCHANGED <<nextTs, committedTxns, memtable, immutables, flushC, walFiles,
                                 lm, commitMark, commitLog>>]_vars
    /\ [](\A t \in Txns : (txn[t].id # 0 /\ txn[t].commitTs = 0)
                              => \A i \in 1..Len(commitLog) : commitLog[i].id # txn[t].id)
    /\ [](nextTs = Len(commitLog) + 1)
    /\ [](\A e \in StoredEntries : Committed(e))
    /\ [](\A t \in Txns : \A g \in txn[t].gets :
              (~g.own /\ g.res = "value")
                  => \E i \in 1..Len(commitLog) :
                         /\ g.key \in DOMAIN commitLog[i].writes
                         /\ commitLog[i].writes[g.key].Value = g.value)

\* a writer whose Commit returned ErrConflictTxn and still holds its pending
\* write, beside the discarded transaction whose commit it conflicts with
C21_Witness ==
    \E t \in Txns, u \in Txns :
        /\ txn[t].pc = "returned" /\ txn[t].result = "ErrConflictTxn"
        /\ txn[t].commitTs = 0 /\ DOMAIN txn[t].pendingWrites # {}
        /\ txn[u].pc = "closed" /\ txn[u].commitTs > txn[t].readTs

CloseInit ==
    /\ panicked = FALSE
    /\ nextTs = 1
    /\ lastCleanUpTs = 0
    /\ committedTxns = <<>>
    /\ writeLock = FALSE
    /\ readMark = WaterMarkDone(NewWaterMark, 0)
    /\ commitMark = WaterMarkDone(NewWaterMark, 0)
    /\ txn = [t \in Txns |-> NewTxn]
    /\ memtable = mkMemtable(1)
    /\ immutables = <<>>
    /\ flushC = <<>>
    /\ walFiles = [v \in {1} |-> <<>>]
    /\ walSeq = 1
    /\ lm = [levels |-> <<>>, files |-> NoFiles]
    /\ worker = [pc |-> "start", imt |-> mkMemtable(0), state |-> "Initialize",
                 closed |-> FALSE]
    /\ commitLog = <<>>
    /\ begun = 0
    /\ markLog = NoMarkLog
    /\ call = NoCall

\* a State test that never sees StateClosed
DBClosedNever(w) == FALSE

\* db.State() == StateClosed
DBClosed(w) == w.state = "Closed"

\* run: atomic.StoreUint32(&db.state, StateOpened)
RunStart ==
    /\ ~panicked
    /\ worker.pc = "start"
    /\ worker' = [worker EXCEPT !.pc = "select", !.state = "Opened"]
    /\ UNCHANGED <<panicked, oracleVars, readMark, commitMark, txn, memtable, immutables,
                   flushC, walFiles, walSeq, lm, commitLog, begun, markLog, call>>

\* run: case imt := <-db.flushC
RunReceive ==
    /\ ~panicked
    /\ worker.pc = "select"
    /\ Len(flushC) > 0
    /\ worker' = [worker EXCEPT !.pc = "flushToL0", !.imt = Head(flushC)]
    /\ flushC' = Tail(flushC)
    /\ UNCHANGED <<panicked, oracleVars, readMark, commitMark, txn, memtable, immutables,
                   walFiles, walSeq, lm, commitLog, begun, markLog, call>>

\* run: db.immutables.Remove(db.immutables.Back()), then the test that leaves
\* the loop and closes db.closed
RunRemove ==
    /\ ~panicked
    /\ worker.pc = "remove"
    /\ IF Len(immutables) = 0
       THEN panicked' = TRUE /\ UNCHANGED immutables
       ELSE immutables' = SubSeq(immutables, 1, Len(immutables) - 1) /\ UNCHANGED panicked
    /\ worker' = [worker EXCEPT !.pc = IF worker.closed /\ Len(flushC) = 0
                                       THEN "exited" ELSE "select"]
    /\ UNCHANGED <<oracleVars, readMark, commitMark, txn, memtable, flushC, walFiles, walSeq,
                   lm, commitLog, begun, markLog, call>>

\* Close: db.closeC <- struct{}{} meets run's case <-db.closeC
CloseSend(t) ==
    /\ ~panicked
    /\ txn[t].pc \in {"idle", "closed"}
    /\ worker.pc = "select"
    /\ worker' = [worker EXCEPT !.closed = TRUE,
                                !.pc = IF Len(flushC) > 0 THEN "select" ELSE "exited"]
    /\ txn' = [txn EXCEPT ![t] = [NewTxn EXCEPT !.pc = "closeFlush"]]
    /\ UNCHANGED <<panicked, oracleVars, readMark, commitMark, memtable, immutables,
                   flushC, walFiles, walSeq, lm, commitLog, begun, markLog, call>>

\* Close: the memtable is frozen and flushed when it holds an entry, its WAL
\* file is deleted in either case
CloseFlush(t) ==
    /\ ~panicked
    /\ txn[t].pc = "closeFlush"
    /\ lm' = IF memtable.skiplist.size > 0
             THEN flushToL0(lm, SkipListAll(memtable.skiplist)) ELSE lm
    /\ walFiles' = [v \in DOMAIN walFiles \ {memtable.wal} |-> walFiles[v]]
    /\ txn' = [txn EXCEPT ![t].pc = "closeWait"]
    /\ UNCHANGED <<panicked, oracleVars, readMark, commitMark, memtable, immutables,
                   flushC, walSeq, worker, commitLog, begun, markLog, call>>

\* Close: <-db.closed, and the deferred store of StateClosed
CloseReturn(t) ==
    /\ ~panicked
    /\ txn[t].pc = "closeWait"
    /\ worker.pc = "exited"
    /\ worker' = [worker EXCEPT !.state = "Closed"]
    /\ txn' = [txn EXCEPT ![t].pc = "closeReturned"]
    /\ UNCHANGED <<panicked, oracleVars, readMark, commitMark, memtable, immutables,
                   flushC, walFiles, walSeq, lm, commitLog, begun, markLog, call>>

\* View (update = FALSE) and Update (update = TRUE): ErrDBClosed in state
\* Closed, db.Begin otherwise
ViewOrUpdate(t, update) ==
    IF DBClosed(worker)
    THEN /\ ~panicked
         /\ txn[t].pc \in {"idle", "closed"}
         /\ txn' = [txn EXCEPT ![t] = [NewTxn EXCEPT !.pc = "errDBClosed",
                                                     !.result = "ErrDBClosed"]]
         /\ UNCHANGED <<panicked, oracleVars, readMark, commitMark, storeVars, commitLog,
                        begun, markLog, call>>
    ELSE Begin(t, update)

CloseNext ==
    \/ ReadMarkProcess
    \/ CommitMarkProcess
    \/ \E t \in Txns, update \in BOOLEAN : ViewOrUpdate(t, update)
    \/ \E t \in Txns : WaitForMarkDone(t)
    \/ \E t \in Txns : WaitForMarkSend(t)
    \/ \E t \in Txns, k \in UserKeys : GetOwn(t, k)
    \/ \E t \in Txns, k \in UserKeys : Get(t, k)
    \/ \E t \in Txns, k \in UserKeys, v \in UserValues : Set(t, k, v)
    \/ \E t \in Txns, k \in UserKeys : Delete(t, k)
    \/ \E t \in Txns : Discard(t)
    \/ \E t \in Txns : CommitEmpty(t)
    \/ \E t \in Txns : CommitConflict(t)
    \/ \E t \in Txns : CommitStart(t)
    \/ \E t \in Txns : CommitWrite(t)
    \/ \E t \in Txns : CommitSend(t)
    \/ \E t \in Txns : CommitPush(t)
    \/ \E t \in Txns : CommitDone(t)
    \/ RunStart
    \/ RunReceive
    \/ WorkerFlush
    \/ WorkerWalDelete
    \/ WorkerCompact
    \/ RunRemove
    \/ \E t \in Txns : CloseSend(t)
    \/ \E t \in Txns : CloseFlush(t)
    \/ \E t \in Txns : CloseReturn(t)

CloseSpec == CloseInit /\ [][CloseNext]_vars

\* C23: the state of the DB changes only from Initialize to Opened and from
\* Opened to Closed; it is Closed once a Close has returned; and a View or
\* Update called in state Closed returns ErrDBClosed, begins no transaction
\* (no read timestamp, no Begin mark) and runs no call of the user function.
C23_StateMovesForwardToClosed ==
    /\ [][worker'.state # worker.state
              => \/ worker.state = "Initialize" /\ worker'.state = "Opened"
                 \/ worker.state = "Opened" /\ worker'.state = "Closed"]_vars
    /\ []((\E t \in Txns : txn[t].pc = "closeReturned") => worker.state = "Closed")
    /\ [][\A t \in Txns :
              (worker.state = "Closed" /\ txn[t].pc \in {"idle", "closed"}
               /\ txn'[t].pc \notin {"idle", "closed"})
                  => /\ txn'[t].pc = "errDBClosed" /\ txn'[t].result = "ErrDBClosed"
                     /\ UNCHANGED <<begun, readMark, commitMark, oracleVars, storeVars>>]_vars
    /\ [][\A t \in Txns : txn[t].pc = "errDBClosed" => txn'[t] = txn[t]]_vars

\* Close has returned after a commit, and a View or Update has then been
\* turned away
C23_Witness ==
    \E t \in Txns, u \in Txns :
        /\ txn[t].pc = "closeReturned" /\ worker.state = "Closed"
        /\ txn[u].pc = "errDBClosed" /\ txn[u].result = "ErrDBClosed"
        /\ Len(commitLog) > 0

(***************************************************************************)
(* Library functions called on their own, on arguments drawn from bounded  *)
(* sets: one call per behaviour, its arguments and result kept in call     *)
(***************************************************************************)
\* kway.Merge on lists sorted by CompareKeys: versioned keys of two user keys
\* with timestamps of one and two digits, two values and the tombstone
MaxMergeLen == 2

MergeKeys == {KeyWithTs(<<97>>, 1), KeyWithTs(<<97>>, 2), KeyWithTs(<<97>>, 10),
              KeyWithTs(<<98>>, 1)}

MergeEntries ==
    {MkEntry(k, v, FALSE, ParseTs(k)) : k \in MergeKeys, v \in {<<118>>, <<119>>}}
        \cup {MkEntry(k, <<>>, TRUE, ParseTs(k)) : k \in MergeKeys}

SortedLists ==
    {SortByCompareKeys(S) :
        S \in {S \in SUBSET MergeEntries :
                  /\ Cardinality(S) <= MaxMergeLen
                  /\ \A x \in S, y \in S : x.Key = y.Key => x = y}}

\* Merge(lists...)
MergeCall(lists) ==
    /\ call.op = "none"
    /\ call' = [op |-> "Merge", lists |-> lists, panic |-> MergePanics(lists),
                out |-> IF MergePanics(lists) THEN <<>> ELSE Merge(lists)]
    /\ UNCHANGED <<panicked, oracleVars, readMark, commitMark, txn, storeVars, commitLog,
                   begun, markLog>>

MergeNext == \E l1 \in SortedLists, l2 \in SortedLists : MergeCall(<<l1, l2>>)

MergeSpec == Init /\ [][MergeNext]_vars

\* the keys of the lists, and the occurrence of key k in the newest list
KeysOf(lists) == UNION {{lists[i][j].Key : j \in 1..Len(lists[i])} : i \in 1..Len(lists)}

NewestOf(lists, k) ==
    LET i == SetMax({i \in 1..Len(lists) : \E j \in 1..Len(lists[i]) : lists[i][j].Key = k})
    IN CHOOSE e \in Range(lists[i]) : e.Key = k

\* C24: for sorted lists that share no versioned key and hold no tombstone,
\* Merge returns their union sorted by the versioned-key comparator; in every
\* case the output holds a versioned key at most once, and then with the
\* entry of the highest-indexed list that holds the key.
C24_MergeSortsUnionNewestWins ==
    call.op = "Merge" =>
        LET lists == call.lists
            out == call.out
            union == UNION {Range(lists[i]) : i \in 1..Len(lists)}
        IN /\ ~call.panic
           /\ ((\A e \in union : ~e.Tombstone)
               /\ (\A i \in 1..Len(lists), j \in 1..Len(lists) :
                      i # j => \A x \in Range(lists[i]), y \in Range(lists[j]) : x.Key # y.Key))
                  => out = SortByCompareKeys(union)
           /\ \A k \in KeysOf(lists) :
                  /\ Cardinality({i \in 1..Len(out) : out[i].Key = k}) <= 1
                  /\ \A i \in 1..Len(out) : out[i].Key = k => out[i] = NewestOf(lists, k)

\* C25: the output of Merge is sorted ascending by the versioned-key
\* comparator: user keys ascending and, within a user key, timestamps
\* descending, whatever the number of digits of the timestamps.
C25_MergeOutputSortedByVersionedKey ==
    call.op = "Merge" =>
        \A i \in 1..Len(call.out), j \in 1..Len(call.out) :
            i < j => CompareKeys(call.out[i].Key, call.out[j].Key) < 0

\* table.Build and Data.Decode on entry lists sorted by CompareKeys: values of
\* no byte, of one byte and of 2^16 bytes
MaxBuildLen == 3

LongValue == [i \in 1..65536 |-> 120]

BuildEntries ==
    {MkEntry(k, v, FALSE, ParseTs(k)) : k \in MergeKeys, v \in {<<>>, <<118>>, LongValue}}
        \cup {MkEntry(k, <<>>, TRUE, ParseTs(k)) : k \in MergeKeys}

BuildLists ==
    {SortByCompareKeys(S) :
        S \in {S \in SUBSET BuildEntries :
                  /\ Cardinality(S) <= MaxBuildLen
                  /\ \A x \in S, y \in S : x.Key = y.Key => x = y}}

\* Build(entries, dataBlockSize, level), and Decode of each of its data blocks
BuildCall(entries) ==
    /\ call.op = "none"
    /\ \E t \in {Build(entries)} :
         call' = [op |-> "Build", entries |-> entries, index |-> t.index,
                  blocks |-> [b \in 1..Len(t.bytes) |-> DataDecode(t.bytes[b])]]
    /\ UNCHANGED <<panicked, oracleVars, readMark, commitMark, txn, storeVars, commitLog,
                   begun, markLog>>

BuildNext == \E entries \in BuildLists : BuildCall(entries)

BuildSpec == Init /\ [][BuildNext]_vars

\* C26: Build packs a sorted entry list into consecutive non-empty data
\* blocks, and the decoded data blocks, concatenated, are the entry list
\* itself: every entry once, in order, with its key, value, tombstone and
\* version, whatever the length of the keys and values.
C26_BuildRoundTrip ==
    call.op = "Build" =>
        /\ \A b \in 1..Len(call.blocks) : Len(call.blocks[b]) > 0
        /\ Concat(call.blocks) = call.entries

(***************************************************************************)
(* DB.Scan of the key-value DB (src/db.go): Set and Delete store the key   *)
(* as the caller gives it; Scan merges the memtable, the immutables and    *)
(* the tables.                                                             *)
(***************************************************************************)
MaxSets == 3

ScanKeys == {<<97>>, <<98>>}

ScanBounds == {<<97>>, <<98>>, <<99>>}

ScanValues == {<<118>>, <<119>>}

Reverse(s) == [i \in 1..Len(s) |-> s[Len(s) + 1 - i]]

RECURSIVE TakeWhileLess(_, _, _)
TakeWhileLess(list, end, i) ==
    IF i > Len(list) THEN [panic |-> FALSE, out |-> <<>>]
    ELSE IF CompareKeysPanics(list[i].Key, end) THEN [panic |-> TRUE, out |-> <<>>]
    ELSE IF CompareKeys(list[i].Key, end) < 0
    THEN LET r == TakeWhileLess(list, end, i + 1) IN
         [panic |-> r.panic, out |-> <<list[i]>> \o r.out]
    ELSE [panic |-> FALSE, out |-> <<>>]

\* SkipList.Scan: the walk to the last node < start, then the nodes < end
SkipListScan(sl, start, end) ==
    IF SkipListWalkPanics(sl, start) THEN [panic |-> TRUE, out |-> <<>>]
    ELSE TakeWhileLess(sl.list, end,
                       (IF Len(sl.list) = 0 THEN 0 ELSE CountLess(sl.list, start)) + 1)

\* memtable.scan: the skip list's Scan under the read lock
memtableScan(mt, start, end) == SkipListScan(mt.skiplist, start, end)

\* Data.Scan, first loop: binary search of the first key >= start; mid keeps
\* the last probe
RECURSIVE DataScanSearch(_, _, _, _, _)
DataScanSearch(entries, start, low, high, mid) ==
    IF low > high THEN [panic |-> FALSE, found |-> FALSE, mid |-> mid]
    ELSE
      LET m == low + ((high - low) \div 2) IN
      IF CompareKeysPanics(entries[m].Key, start)
      THEN [panic |-> TRUE, found |-> FALSE, mid |-> m]
      ELSE IF CompareKeys(entries[m].Key, start) >= 0
      THEN IF m = 1 THEN [panic |-> FALSE, found |-> TRUE, mid |-> m]
           ELSE IF CompareKeys(entries[m - 1].Key, start) < 0
           THEN [panic |-> FALSE, found |-> TRUE, mid |-> m]
           ELSE DataScanSearch(entries, start, low, m - 1, m)
      ELSE DataScanSearch(entries, start, m + 1, high, m)

\* Data.Scan, second loop: the comparison with end comes before the test of
\* found
DataScanFrom(entries, end, s) ==
    IF s.panic THEN [panic |-> TRUE, out |-> <<>>]
    ELSE LET r == TakeWhileLess(entries, end, s.mid) IN
         [panic |-> r.panic, out |-> IF s.found THEN r.out ELSE <<>>]

DataScan(entries, start, end) ==
    DataScanFrom(entries, end, DataScanSearch(entries, start, 1, Len(entries), 1))

\* Index.Scan: the handles of the blocks whose [StartKey, EndKey] overlaps
\* [start, end], in plain string order
IndexScan(index, start, end) ==
    LET hit == SelectSeq(index, LAMBDA e : /\ StrCompare(e.EndKey, start) >= 0
                                           /\ StrCompare(e.StartKey, end) <= 0)
    IN [n \in 1..Len(hit) |-> hit[n].DataHandle]

\* fetchAndScan of every block handle of one table
TableScan(files, level, th, start, end) ==
    LET hs == IndexScan(th.dataBlockIndex, start, end) IN
    [n \in 1..Len(hs) |->
        IF fileName(level, th.levelIdx) \notin DOMAIN files
        THEN [panic |-> TRUE, out |-> <<>>]
        ELSE DataScan(fetchBlock(files, level, th.levelIdx, hs[n]), start, end)]

\* kway.Merge(scans...) of scan results, one of which may have panicked
MergeScans(scans) ==
    LET lists == [n \in 1..Len(scans) |-> scans[n].out] IN
    IF \E n \in 1..Len(scans) : scans[n].panic THEN [panic |-> TRUE, out |-> <<>>]
    ELSE IF MergePanics(lists) THEN [panic |-> TRUE, out |-> <<>>]
    ELSE [panic |-> FALSE, out |-> Merge(lists)]

\* levelManager.scan: per level the block scans front to back, reversed; the
\* whole list reversed again, then merged
lmScan(m, start, end) ==
    IF Len(m.levels) = 0 THEN [panic |-> FALSE, out |-> <<>>]
    ELSE MergeScans(Reverse(Concat(
             [l \in 1..Len(m.levels) |->
                 Reverse(Concat([j \in 1..Len(m.levels[l]) |->
                                    TableScan(m.files, l - 1, m.levels[l][j], start, end)]))])))

\* kvs: the tombstones are dropped
kvs(entries) ==
    LET live == SelectSeq(entries, LAMBDA e : ~e.Tombstone) IN
    [n \in 1..Len(live) |-> [K |-> live[n].Key, V |-> live[n].Value]]

kvsOf(r) == [panic |-> r.panic, out |-> kvs(r.out)]

\* DB.Scan: memtable, immutables from the back, tables; reversed and merged
DBScan(mt, imts, m, start, end) ==
    kvsOf(MergeScans(Reverse(
        <<memtableScan(mt, start, end)>>
        \o [n \in 1..Len(imts) |-> memtableScan(imts[Len(imts) + 1 - n], start, end)]
        \o <<lmScan(m, start, end)>>)))

\* DB.Set and DB.Delete: rawset under db.mu (memtable.set, and at the size
\* threshold freeze, send on flushC, PushBack, reset)
DBSet(key, value, tombstone) ==
    /\ ~panicked
    /\ call.op = "none"
    /\ Len(commitLog) < MaxSets
    /\ \E level \in 1..SkipListMaxLevel :
         LET entry == MkEntry(key, value, tombstone, 0)
             r == SkipListSet(memtable.skiplist, entry, level)
         IN IF r.panic
            THEN /\ panicked' = TRUE
                 /\ UNCHANGED <<memtable, immutables, flushC, walFiles, walSeq>>
            ELSE IF r.sl.size >= MemtableByteThreshold
            THEN /\ Len(flushC) < ImmutableBuffer
                 /\ flushC' = Append(flushC, [memtable EXCEPT !.skiplist = r.sl])
                 /\ immutables' = Append(immutables, [memtable EXCEPT !.skiplist = r.sl])
                 /\ memtable' = mkMemtable(walSeq + 1)
                 /\ walSeq' = walSeq + 1
                 /\ walFiles' = [v \in DOMAIN walFiles \cup {walSeq + 1} |->
                                    IF v = walSeq + 1 THEN <<>>
                                    ELSE IF v = memtable.wal THEN Append(walFiles[v], entry)
                                    ELSE walFiles[v]]
                 /\ UNCHANGED panicked
            ELSE /\ memtable' = [memtable EXCEPT !.skiplist = r.sl]
                 /\ walFiles' = walWrite(walFiles, memtable.wal, entry)
                 /\ UNCHANGED <<panicked, immutables, flushC, walSeq>>
    /\ commitLog' = Append(commitLog, [Key |-> key, Value |-> value, Tombstone |-> tombstone])
    /\ UNCHANGED <<oracleVars, readMark, commitMark, txn, lm, worker, begun, markLog, call>>

\* DB.Scan(start, end) under the read lock of db.mu
DBScanCall(start, end) ==
    /\ ~panicked
    /\ call.op = "none"
    /\ \E r \in {DBScan(memtable, immutables, lm, start, end)} :
         /\ call' = [op |-> "Scan", start |-> start, end |-> end, panic |-> r.panic,
                     out |-> r.out, sets |-> commitLog]
         /\ panicked' = r.panic
    /\ UNCHANGED <<oracleVars, readMark, commitMark, txn, storeVars, commitLog, begun, markLog>>

ScanNext ==
    \/ \E key \in ScanKeys, value \in ScanValues : DBSet(key, value, FALSE)
    \/ \E key \in ScanKeys : DBSet(key, <<>>, TRUE)
    \/ \E start \in ScanBounds, end \in ScanBounds : DBScanCall(start, end)
    \/ WorkerReceive
    \/ WorkerFlush
    \/ WorkerWalDelete
    \/ WorkerCompact
    \/ WorkerRemove

ScanSpec == Init /\ [][ScanNext]_vars

\* the last Set or Delete of a key in the history
LastSet(sets, k) ==
    sets[SetMax({i \in 1..Len(sets) : sets[i].Key = k})]

\* the live pairs of [start, end), ascending by key
LivePairs(sets, start, end) ==
    LET keys == {k \in {sets[i].Key : i \in 1..Len(sets)} :
                    /\ StrCompare(start, k) <= 0
                    /\ StrCompare(k, end) < 0
                    /\ ~LastSet(sets, k).Tombstone}
        sorted == SortByStr({[Key |-> k] : k \in keys})
    IN [n \in 1..Len(sorted) |->
           [K |-> sorted[n].Key, V |-> LastSet(sets, sorted[n].Key).Value]]

\* C27: Scan(start, end) returns exactly the live pairs with
\* start <= key < end, each key once with its newest value, ascending by
\* key, wherever the entries are (memtable, immutables, tables of any
\* level), and nothing when no key is in the range.
C27_ScanReturnsLiveRange ==
    call.op = "Scan" =>
        /\ ~call.panic
        /\ call.out = LivePairs(call.sets, call.start, call.end)

\* C28: no Bloom false negative: for every table of the level manager and
\* every entry k@t stored in it, the table's filter answers true for the
\* user part k, the probe of searchLowerBound, without relying on a false
\* positive; no table that holds a version of the searched key is skipped.
C28_NoBloomFalseNegative ==
    \A l \in 1..Len(lm.levels) : \A j \in 1..Len(lm.levels[l]) :
        LET th == lm.levels[l][j] IN
        fileName(l - 1, th.levelIdx) \in DOMAIN lm.files =>
            \A e \in Range(fetchAll(lm.files, l - 1, th.levelIdx)) :
                ~ParseKeyPanics(e.Key) => FilterContains(th.filter, ParseKey(e.Key), FALSE)

(***************************************************************************)
(* SkipList.Set and SkipList.All on their own: a sequence of sets of       *)
(* versioned keys on one skip list; commitLog is the history of the sets.  *)
(***************************************************************************)
MaxSkipSets == 3

SkipEntries ==
    {MkEntry(k, v, FALSE, ParseTs(k)) : k \in MergeKeys, v \in ScanValues}
        \cup {MkEntry(k, <<>>, TRUE, ParseTs(k)) : k \in MergeKeys}

\* s.Set(entry) on the memtable's skip list
SkipSet(entry) ==
    /\ ~panicked
    /\ Len(commitLog) < MaxSkipSets
    /\ \E level \in 1..SkipListMaxLevel :
       \E r \in {SkipListSet(memtable.skiplist, entry, level)} :
         /\ panicked' = r.panic
         /\ memtable' = [memtable EXCEPT !.skiplist = r.sl]
    /\ commitLog' = Append(commitLog, entry)
    /\ UNCHANGED <<oracleVars, readMark, commitMark, txn, immutables, flushC, walFiles,
                   walSeq, lm, worker, begun, markLog, call>>

SkipListNext == \E entry \in SkipEntries : SkipSet(entry)

SkipListSpec == Init /\ [][SkipListNext]_vars

\* C29: after any sequence of sets of versioned keys, all() is strictly
\* sorted by the versioned-key comparator (so no versioned key is there
\* twice), holds exactly the versioned keys that were set, different versions
\* of one user key as separate entries, and each with the value and the
\* tombstone of its latest set.
C29_SkipListSortedLatestWins ==
    LET all == SkipListAll(memtable.skiplist) IN
    /\ ~panicked
    /\ \A i \in 1..Len(all), j \in 1..Len(all) :
           i < j => CompareKeys(all[i].Key, all[j].Key) < 0
    /\ {all[i].Key : i \in 1..Len(all)} = {commitLog[n].Key : n \in 1..Len(commitLog)}
    /\ \A i \in 1..Len(all) :
           LET last == LastSet(commitLog, all[i].Key) IN
           /\ all[i].Value = last.Value
           /\ all[i].Tombstone = last.Tombstone

\* a@10 was set before a@2, and a@2 was set again with another value: all()
\* holds a@10 before a@2
C29_Witness ==
    LET all == SkipListAll(memtable.skiplist) IN
    /\ Len(commitLog) = 3
    /\ commitLog[1].Key = KeyWithTs(<<97>>, 10)
    /\ commitLog[2].Key = KeyWithTs(<<97>>, 2)
    /\ commitLog[3].Key = KeyWithTs(<<97>>, 2)
    /\ commitLog[2].Value # commitLog[3].Value
    /\ Len(all) = 2
    /\ all[1].Key = KeyWithTs(<<97>>, 10)
    /\ all[2].Value = commitLog[3].Value

\* the frozen memtables whose entries are not yet in an L0 table: those
\* waiting in flushC and the one the worker has received and not yet flushed
FrozenUnflushed ==
    Range(flushC) \cup (IF worker.pc = "flushToL0" THEN {worker.imt} ELSE {})

\* C30: every frozen memtable is readable by search (it is in the immutable
\* queue or, between the send and PushBack of rawset, still db.memtable)
\* from its freeze until its entries are in an L0 table, under every
\* interleaving of committers and the flush worker: the worker's
\* Remove(Back()) takes the memtable it has flushed and no other.
C30_FrozenMemtableStaysQueued ==
    \A m \in FrozenUnflushed :
        m = memtable \/ \E i \in 1..Len(immutables) : immutables[i] = m

\* the names of the table files of the level manager
TableFileNames(m) ==
    UNION {{fileName(l - 1, m.levels[l][j].levelIdx) : j \in 1..Len(m.levels[l])} :
              l \in 1..Len(m.levels)}

\* the versions of user key k at or below r held in the tables
TableVersionsAtOrBelow(m, k, r) ==
    {e \in AllEntries(m) : ~ParseKeyPanics(e.Key) /\ ParseKey(e.Key) = k /\ ParseTs(e.Key) <= r}

\* C31: searchLowerBound(k@r) returns the entry of user key k with the
\* largest version at or below r held in any table, whenever there is one,
\* whichever block and whichever table holds it and whatever the filters'
\* false positives are.
C31_SearchLowerBoundFindsNewestAtOrBelow ==
    \A k \in LevelKeys, r \in 0..MaxVersion :
        TableVersionsAtOrBelow(lm, k, r) # {} =>
            \A FP \in SUBSET TableFileNames(lm) :
                LET res == searchLowerBound(lm.levels, lm.files, KeyWithTs(k, r), FP) IN
                /\ ~res.panic
                /\ res.ok
                /\ res.entry \in TableVersionsAtOrBelow(lm, k, r)
                /\ \A e \in TableVersionsAtOrBelow(lm, k, r) : ParseTs(e.Key) <= ParseTs(res.entry.Key)

\* Close has frozen db.memtable (and flushed it, and deleted its WAL file)
CloseHasFrozen == \E t \in Txns : txn[t].pc \in {"closeWait", "closeReturned"}

\* C32: a memtable is frozen at most once and receives no entry after its
\* freeze, also when Close runs beside a committing transaction (the
\* memtable Close has frozen is not changed, sent or replaced afterwards); it
\* is flushed to L0 once (no flush of entries that a table already holds);
\* and its WAL file is there as long as its entries are in no table.
C32_MemtableFrozenOnceFlushedOnce ==
    /\ [][CloseHasFrozen => (memtable' = memtable /\ Len(flushC') <= Len(flushC))]_vars
    /\ [][(WorkerFlush \/ \E t \in Txns : CloseFlush(t) /\ memtable.skiplist.size > 0)
              => \A m \in {worker.imt, memtable} :
                     (lm' = flushToL0(lm, SkipListAll(m.skiplist)))
                         => Range(SkipListAll(m.skiplist)) \cap AllEntries(lm) = {}]_vars
    /\ [](\A m \in FrozenUnflushed : m.wal \in DOMAIN walFiles)

(***************************************************************************)
(* The oracle under more transactions: each rawset and each cycle of the   *)
(* flush worker runs to its end before another step is taken, so that four *)
(* transactions can begin within the bounds                                *)
(***************************************************************************)
MaxOracleBegin == 4

\* no rawset is between its freeze and its reset, and run is at its select
StoreIdle ==
    /\ worker.pc = "select"
    /\ \A t \in Txns : txn[t].pc \notin {"sending", "pushing"}

OracleNext ==
    \/ StoreIdle /\ ReadMarkProcess
    \/ StoreIdle /\ CommitMarkProcess
    \/ StoreIdle /\ \E t \in Txns, update \in BOOLEAN : BeginWith(t, update, MaxOracleBegin)
    \/ StoreIdle /\ \E t \in Txns : WaitForMarkDone(t)
    \/ StoreIdle /\ \E t \in Txns : WaitForMarkSend(t)
    \/ StoreIdle /\ \E t \in Txns, k \in UserKeys : Get(t, k)
    \/ StoreIdle /\ \E t \in Txns, k \in UserKeys, v \in UserValues : Set(t, k, v)
    \/ StoreIdle /\ \E t \in Txns : Discard(t)
    \/ StoreIdle /\ \E t \in Txns : CommitEmpty(t)
    \/ StoreIdle /\ \E t \in Txns : CommitConflict(t)
    \/ StoreIdle /\ \E t \in Txns : CommitStart(t)
    \/ StoreIdle /\ \E t \in Txns : CommitWrite(t)
    \/ \E t \in Txns : CommitSend(t)
    \/ \E t \in Txns : CommitPush(t)
    \/ StoreIdle /\ \E t \in Txns : CommitDone(t)
    \/ StoreIdle /\ WorkerReceive
    \/ WorkerFlush
    \/ WorkerWalDelete
    \/ WorkerCompact
    \/ WorkerRemove

OracleSpec == Init /\ [][OracleNext]_vars

\* the transaction has its read timestamp and has not yet run doneRead
ActiveRead(t) == txn[t].pc \in {"waitForMark", "parked", "active"}

\* C33: cleanUpCommittedTxns removes no record that an active transaction
\* needs: whenever hasConflict(T) can run, committedTxns holds the record of
\* every commit with a timestamp greater than T's read timestamp.
C33_CleanUpKeepsNeededRecords ==
    \A t \in Txns :
        ActiveRead(t) =>
            \A i \in 1..Len(commitLog) :
                commitLog[i].ts > txn[t].readTs =>
                    \E j \in 1..Len(committedTxns) :
                        /\ committedTxns[j].ts = commitLog[i].ts
                        /\ committedTxns[j].writesFp = commitLog[i].writesFp

\* a clean-up has removed a record, and an active transaction has a commit
\* above its read timestamp to check against
C33_Witness ==
    /\ Len(committedTxns) < Len(commitLog)
    /\ \E t \in Txns :
          /\ txn[t].pc = "active"
          /\ \E i \in 1..Len(commitLog) : commitLog[i].ts > txn[t].readTs

MaxReopens == 2

\* Close at the select of run with an empty flushC: the memtable holding the
\* commit ws at version nextTs (no entry when ws is empty) is flushed by
\* flushImmutable, its WAL file is deleted, run has left its loop, and the
\* process ends with the directory it leaves (lm.levels stays as Close left
\* it until Open rebuilds it)
LevelCloseUpTo(ws, bound) ==
    /\ ~panicked
    /\ worker.pc = "select"
    /\ walSeq <= MaxReopens
    /\ nextTs <= bound
    /\ LET writes == [k \in DOMAIN ws |->
                         MkEntry(KeyWithTs(k, nextTs),
                                 IF ws[k] = "set" THEN LevelValue(nextTs) ELSE <<>>,
                                 ws[k] = "delete", nextTs)]
           flushed == IF DOMAIN ws = {} THEN lm
                      ELSE flushToL0(lm, SortByCompareKeys(Range(writes)))
       IN /\ lm' = flushed
          /\ commitLog' = IF DOMAIN ws = {} THEN commitLog
                          ELSE Append(commitLog,
                                 [ts |-> nextTs, id |-> 0, readTs |-> nextTs - 1,
                                  writes |-> writes, gets |-> {},
                                  readsFp |-> {}, writesFp |-> {Hash(k) : k \in DOMAIN ws},
                                  returned |-> TRUE])
    /\ walFiles' = [v \in DOMAIN walFiles \ {memtable.wal} |-> walFiles[v]]
    /\ panicked' = TRUE
    /\ nextTs' = 1
    /\ readMark' = NewWaterMark
    /\ commitMark' = NewWaterMark
    /\ txn' = [t \in Txns |-> ClosedTxn]
    /\ memtable' = mkMemtable(memtable.wal)
    /\ worker' = [pc |-> "crashed", imt |-> mkMemtable(0)]
    /\ UNCHANGED <<lastCleanUpTs, committedTxns, writeLock, immutables, flushC, walSeq,
                   begun, markLog, call>>

LevelClose(ws) == LevelCloseUpTo(ws, MaxVersion)

\* Open: go db.run(), which reaches its select
LevelRun ==
    /\ ~panicked
    /\ worker.pc = "recovered"
    /\ worker' = [worker EXCEPT !.pc = "select"]
    /\ UNCHANGED <<panicked, oracleVars, readMark, commitMark, txn, memtable, immutables,
                   flushC, walFiles, walSeq, lm, commitLog, begun, markLog, call>>

LevelReopenNext ==
    \/ \E ws \in LevelWrites : LevelFlush(ws)
    \/ LevelCompact
    \/ \E d \in 1..MaxVersion : LevelReadDone(d)
    \/ \E ws \in LevelWrites \cup {<<>>} : LevelClose(ws)
    \/ Open
    \/ LevelRun

LevelReopenSpec == Init /\ [][LevelReopenNext]_vars

\* level i holds at most l0TargetNum * ratio^i tables
WithinTargets(m) ==
    \A i \in 0..(Len(m.levels) - 1) :
        Len(m.levels[i + 1]) <= L0TargetNum * Pow(LevelRatio, i)

\* run has finished a flush cycle: flushImmutable and checkAndCompact are
\* done and run is back at its select (or has left the loop)
CycleFinished ==
    /\ worker.pc \in {"checkAndCompact", "remove"}
    /\ worker'.pc \in {"select", "exited"}
    /\ ~panicked'

\* C35: whenever the background worker has finished a flush cycle
\* (flushToL0 followed by checkAndCompact), no level i holds more than
\* l0TargetNum * ratio^i tables, also in the cycles that follow a Close and
\* a re-open of the DB.
C35_LevelsWithinTargetsAfterCycle ==
    [][CycleFinished => WithinTargets(lm')]_vars

(***************************************************************************)
(* Flushes and compactions over two user keys, with an L0 target of two    *)
(* tables: the key ranges of the tables of a level                         *)
(***************************************************************************)
RangeKeys == {<<97>>, <<98>>}
MaxRangeVersion == 5
RangeL0TargetNum == 2

\* the memtable of one commit: user key -> "set" or "delete"
RangeWrites == UNION {[S -> {"set", "delete"}] : S \in (SUBSET RangeKeys) \ {{}}}

RangeNext ==
    \/ \E ws \in RangeWrites : LevelFlushUpTo(ws, MaxRangeVersion)
    \/ LevelCompactTarget(RangeL0TargetNum)

RangeSpec == Init /\ [][RangeNext]_vars

\* the ranges [StartKey, EndKey] of two tables share no key under CompareKeys
\* (a table without index entries has no range)
RangesDisjoint(a, b) ==
    \/ Len(a.dataBlockIndex) = 0
    \/ Len(b.dataBlockIndex) = 0
    \/ CompareKeys(EndKeyOf(a), StartKeyOf(b)) < 0
    \/ CompareKeys(EndKeyOf(b), StartKeyOf(a)) < 0

\* C36: in every level >= 1 the key ranges [StartKey, EndKey] of the tables
\* are pairwise disjoint under the versioned-key comparator, after any
\* sequence of flushes and compactions.
C36_LevelRangesDisjoint ==
    \A l \in 2..Len(lm.levels) : \A i, j \in 1..Len(lm.levels[l]) :
        i # j => RangesDisjoint(lm.levels[l][i], lm.levels[l][j])

\* C37: every table handle held by the level manager has at least one index
\* entry (so overlapL0, overlapLN and boundary never read the first or last
\* entry of an empty index), also after a compaction whose inputs hold only
\* tombstones.
C37_EveryTableHasIndexEntry ==
    \A l \in 1..Len(lm.levels) : \A i \in 1..Len(lm.levels[l]) :
        Len(lm.levels[l][i].dataBlockIndex) >= 1

(***************************************************************************)
(* Close and Open after many flushes: the table ordinals grow past 9       *)
(***************************************************************************)
MaxRestartVersion == 11

\* the memtable of one commit: a set of the user key
RestartWrites == {[k \in LevelKeys |-> "set"]}

RestartNext ==
    \/ \E ws \in RestartWrites : LevelFlushUpTo(ws, MaxRestartVersion)
    \/ LevelCompact
    \/ \E ws \in RestartWrites \cup {<<>>} : LevelCloseUpTo(ws, MaxRestartVersion)
    \/ Open
    \/ LevelRun

RestartSpec == Init /\ [][RestartNext]_vars

\* the ordinals of the tables of level l (1-based), front first
TableOrder(m, l) ==
    IF l <= Len(m.levels) THEN [j \in 1..Len(m.levels[l]) |-> m.levels[l][j].levelIdx]
    ELSE <<>>

\* C38: closing and re-opening the DB rebuilds every level with the same
\* tables in the same order (oldest table first, ascending ordinal) as
\* before the restart, for any number of tables and any ordinal values.
C38_ReopenKeepsTableOrder ==
    [][(worker.pc = "crashed" /\ worker'.pc = "recovered" /\ ~panicked')
          => \A l \in 1..Max2(Len(lm.levels), Len(lm'.levels)) :
                 TableOrder(lm', l) = TableOrder(lm, l)]_vars

(***************************************************************************)
(* Progress of Begin and Commit: the coordinators, the flush worker and    *)
(* the callers inside Begin and Commit are goroutines that keep running    *)
(***************************************************************************)
\* the steps of a caller inside Begin (readTs) or inside Commit
InCall(t) ==
    \/ WaitForMarkDone(t)
    \/ WaitForMarkSend(t)
    \/ CommitWrite(t)
    \/ CommitSend(t)
    \/ CommitPush(t)
    \/ CommitDone(t)

\* run, from the receive on flushC to the Remove
WorkerStep ==
    \/ WorkerReceive
    \/ WorkerFlush
    \/ WorkerWalDelete
    \/ WorkerCompact
    \/ WorkerRemove

ProgressSpec ==
    /\ Init /\ [][Next]_vars
    /\ WF_vars(ReadMarkProcess)
    /\ WF_vars(CommitMarkProcess)
    /\ WF_vars(WorkerStep)
    /\ \A t \in Txns : WF_vars(InCall(t))

InBegin(t) == txn[t].pc \in {"waitForMark", "parked"}

InCommit(t) == txn[t].pc \in {"writing", "sending", "pushing"}

\* C39: while the DB is open, every Begin and every Commit call eventually
\* returns: committers, readers, the flush worker and the two watermark
\* coordinators never deadlock.
C39_BeginAndCommitReturn ==
    \A t \in Txns :
        /\ InBegin(t) ~> (txn[t].pc = "active")
        /\ InCommit(t) ~> (txn[t].pc = "returned")

(***************************************************************************)
(* Progress of Close: run and the caller of Close keep running             *)
(***************************************************************************)
\* run, from its start to the test that leaves the loop
RunStep ==
    \/ RunStart
    \/ RunReceive
    \/ WorkerFlush
    \/ WorkerWalDelete
    \/ WorkerCompact
    \/ RunRemove

CloseProgressSpec ==
    /\ CloseSpec
    /\ WF_vars(RunStep)
    /\ \A t \in Txns : WF_vars(CloseFlush(t) \/ CloseReturn(t))

InClose(t) == txn[t].pc \in {"closeFlush", "closeWait"}

\* Close returns in this step
CloseReturns == \E t \in Txns : txn[t].pc = "closeWait" /\ txn'[t].pc = "closeReturned"

\* the memtables frozen and not yet taken by run: those waiting in flushC,
\* and db.memtable while a committer is between freeze and reset
FrozenPending ==
    Range(flushC) \cup (IF \E t \in Txns : txn[t].pc \in {"sending", "pushing"}
                        THEN {memtable} ELSE {})

\* C40: Close eventually returns, and when it returns every memtable frozen
\* before or by Close has been flushed to L0 and its WAL file deleted, the
\* flush worker has exited with an empty flush channel, and the state is
\* Closed.
C40_CloseReturnsWithAllFlushed ==
    /\ \A t \in Txns : InClose(t) ~> (txn[t].pc = "closeReturned")
    /\ [][CloseReturns =>
             /\ worker'.pc = "exited"
             /\ worker'.state = "Closed"
             /\ flushC' = <<>>
             /\ \A m \in FrozenPending :
                    /\ Range(SkipListAll(m.skiplist)) \subseteq AllEntries(lm)
                    /\ m.wal \notin DOMAIN walFiles]_vars

============================================================================
